---- MODULE Spec2Model ----
(***************************************************************************)
(* A model of kb-mcp's incremental sync pipeline and its store.            *)
(*                                                                         *)
(* The store is the SQLite database of src/db (tables sources, articles,   *)
(* chunks, the vec0 table chunks_vec and the AUTOINCREMENT sequence of     *)
(* chunks).  The sync coordinator is syncSource of src/sync/index.ts,      *)
(* split at its await points: the article fetch, the embedding batch and   *)
(* the (synchronous) store transaction.                                    *)
(***************************************************************************)
EXTENDS Integers, Sequences, FiniteSets, TLC

(***************************************************************************)
(* Bounds of the model.                                                    *)
(***************************************************************************)
\* syncSource runs started in one behaviour (also the model's clock).
MaxRuns == 2
\* Length of the article listing one fetch returns.
MaxListing == 2

\* Configured sources (config.sources), origin-assigned article ids and
\* origin updated_at values (whole seconds).
SourceIds == {"a", "b"}
ArticleIds == {1, 2}
OriginSeconds == {1, 2}

(***************************************************************************)
(* Text, as the chunker sees it.  A sentence-like unit is the sequence of  *)
(* the character counts of its words followed by a delimiter of `delim'    *)
(* white-space characters (0 for the last unit of a trimmed text); the     *)
(* punctuation belongs to the last word.                                   *)
(***************************************************************************)
RECURSIVE SumSeq(_)
SumSeq(s) == IF s = <<>> THEN 0 ELSE Head(s) + SumSeq(Tail(s))

\* "x".length of a sentence-like unit
SentenceLength(s) == SumSeq(s.words) + (Len(s.words) - 1) + s.delim

estimateTokenCount(length) == (length + 3) \div 4

\* sentence.split(/\s+/): the words, and an empty string after a trailing
\* white-space delimiter
SplitWords(s) == IF s.delim > 0 THEN Append(s.words, 0) ELSE s.words

\* `# ${title}\n\n`.length
TitlePrefixLength(titleLength) == titleLength + 4

\* The chunk of the empty text: the trimmed title prefix.
TitleOnlyChunk(title, titleLength) ==
  [text |-> [title |-> title, pieces |-> <<>>],
   index |-> 0,
   tokenCount |-> estimateTokenCount(titleLength + 2)]

\* A faulty variant of MakeChunk: the index counts from one.
MakeChunkFromOne(chunks, title, pieces, tokens) ==
  [text |-> [title |-> title, pieces |-> pieces],
   index |-> Len(chunks) + 1,
   tokenCount |-> tokens]

MakeChunk(chunks, title, pieces, tokens) ==
  [text |-> [title |-> title, pieces |-> pieces],
   index |-> Len(chunks),
   tokenCount |-> tokens]

\* wordChunk.join(' '): the text of a chunk of the oversized-sentence path
JoinedWords(wordChunk) == [words |-> wordChunk, delim |-> 0, joined |-> TRUE]

\* The word loop of the oversized-sentence path: returns the chunks.
RECURSIVE SplitByWords(_, _, _, _, _, _, _)
SplitByWords(words, chunks, wordChunk, wordTokens, title, titleTokens, effective) ==
  IF words = <<>>
    THEN IF Len(wordChunk) > 0
           THEN Append(chunks, MakeChunk(chunks, title, <<JoinedWords(wordChunk)>>,
                                         titleTokens + wordTokens))
           ELSE chunks
    ELSE LET word == Head(words)
             wordToken == estimateTokenCount(word + 1)
             flush == wordTokens + wordToken > effective /\ Len(wordChunk) > 0
             chunks1 == IF flush
                          THEN Append(chunks, MakeChunk(chunks, title,
                                        <<JoinedWords(wordChunk)>>,
                                        titleTokens + wordTokens))
                          ELSE chunks
             wordChunk1 == IF flush THEN <<>> ELSE wordChunk
             wordTokens1 == IF flush THEN 0 ELSE wordTokens
         IN SplitByWords(Tail(words), chunks1, Append(wordChunk1, word),
                         wordTokens1 + wordToken, title, titleTokens, effective)

\* The overlap seed: the longest suffix of the closed chunk's sentences
\* whose token estimates sum to at most `overlap', walked from the end.
RECURSIVE OverlapSentences(_, _, _, _)
OverlapSentences(currentChunk, j, acc, overlap) ==
  IF j = 0 THEN acc
  ELSE LET tokens == estimateTokenCount(SentenceLength(currentChunk[j]))
       IN IF acc.tokens + tokens > overlap
            THEN acc
            ELSE OverlapSentences(currentChunk, j - 1,
                   [sentences |-> <<currentChunk[j]>> \o acc.sentences,
                    tokens |-> acc.tokens + tokens], overlap)

RECURSIVE ChunkLoop(_, _, _, _, _, _, _, _)
ChunkLoop(sentences, chunks, currentChunk, currentTokens, title, titleTokens, effective, overlap) ==
  IF sentences = <<>>
    THEN IF Len(currentChunk) > 0
           THEN Append(chunks, MakeChunk(chunks, title, currentChunk, titleTokens + currentTokens))
           ELSE chunks
    ELSE LET sentence == Head(sentences)
             sentenceTokens == estimateTokenCount(SentenceLength(sentence))
         IN IF sentenceTokens > effective /\ Len(currentChunk) = 0
              THEN ChunkLoop(Tail(sentences),
                     SplitByWords(SplitWords(sentence), chunks, <<>>, 0, title, titleTokens, effective),
                     currentChunk, currentTokens, title, titleTokens, effective, overlap)
              ELSE LET close == currentTokens + sentenceTokens > effective /\ Len(currentChunk) > 0
                       seed == OverlapSentences(currentChunk, Len(currentChunk),
                                 [sentences |-> <<>>, tokens |-> 0], overlap)
                       chunks1 == IF close
                                    THEN Append(chunks, MakeChunk(chunks, title, currentChunk,
                                                  titleTokens + currentTokens))
                                    ELSE chunks
                       chunk1 == IF close THEN seed.sentences ELSE currentChunk
                       tokens1 == IF close THEN seed.tokens ELSE currentTokens
                   IN ChunkLoop(Tail(sentences), chunks1, Append(chunk1, sentence),
                                tokens1 + sentenceTokens, title, titleTokens, effective, overlap)

\* A faulty variant of splitIntoSentences: a part of a single word is
\* dropped too.
SplitDropsWord(text) == SelectSeq(text, LAMBDA part : Len(part.words) > 1)

\* splitIntoSentences(text); `text' is the sequence of the parts between
\* the delimiters, each with the delimiter that follows it (what the
\* reduce joins), and a part with no word is one that trims to nothing
splitIntoSentences(text) == SelectSeq(text, LAMBDA part : part.words # <<>>)

\* chunkText(text, title, targetSize, overlap)
chunkText(text, title, titleLength, targetSize, overlap) ==
  LET sentences == splitIntoSentences(text)
  IN IF Len(sentences) = 0
       THEN <<TitleOnlyChunk(title, titleLength)>>
       ELSE LET titleTokens == estimateTokenCount(TitlePrefixLength(titleLength))
            IN ChunkLoop(sentences, <<>>, <<>>, 0, title, titleTokens,
                         targetSize - titleTokens, overlap)

(***************************************************************************)
(* Dates.  A timestamp string is modelled by its format and the instant    *)
(* it denotes: the origin sends whole seconds ([s |-> 2] is "...:02Z"),    *)
(* Date.prototype.toISOString writes milliseconds ([ms |-> 2000] is        *)
(* "...:02.000Z").  A Date is its time value in milliseconds.              *)
(***************************************************************************)
\* new Date(string)
DateOf(str) == IF "s" \in DOMAIN str THEN str.s * 1000 ELSE str.ms

\* date.toISOString()
toISOString(date) == [ms |-> date]

NULL == [null |-> TRUE]

(***************************************************************************)
(* The origin.  The title and the body of an article are a function of     *)
(* its id and its updated_at: an article whose content changes gets a new  *)
(* updated_at.  Config is config.sync.                                     *)
(***************************************************************************)
Config == [chunkSize |-> 6, chunkOverlap |-> 2]

Sentence(words, delim) == [words |-> words, delim |-> delim]

Bodies ==
  << <<>>,
     << Sentence(<<3, 3>>, 0) >>,
     << Sentence(<<3, 3>>, 1), Sentence(<<2, 4>>, 1), Sentence(<<5>>, 0) >>,
     << Sentence(<<7, 7, 7>>, 1), Sentence(<<2>>, 0) >> >>

OriginBody(id, t) == [markup |-> "html", text |-> Bodies[((id + 2 * t) % Len(Bodies)) + 1]]

OriginArticle(id, t) ==
  [id |-> id,
   title |-> [name |-> id, length |-> 2],
   body |-> OriginBody(id, t),
   updated_at |-> [s |-> t]]

OriginArticles == {OriginArticle(id, t) : id \in ArticleIds, t \in OriginSeconds}

\* The listings a fetch can return: any sequence of published articles, an
\* id possibly more than once (pages of an origin that changes while it is
\* being paged overlap).
Listings == UNION {[1..n -> OriginArticles] : n \in 0..MaxListing}

\* parseHTMLStructured: non-string input yields the empty text
parseHTMLStructured(body) == IF body.markup = "html" THEN body.text ELSE <<>>

\* The vector the embedding service computes for a text.
Embedding(text) == [of |-> text]

(***************************************************************************)
(* The store.                                                              *)
(***************************************************************************)
EmptyDb ==
  [sources |-> {}, articles |-> {}, chunks |-> {}, chunks_vec |-> {}, seq |-> 0]

\* A transaction in progress: the working database, the number of
\* statements run so far, the statement at which the environment makes the
\* database fail (-1: none), and whether a statement has thrown.
Begin(d, failAt) == [db |-> d, n |-> 0, failAt |-> failAt, ok |-> TRUE]

\* One write statement: `after' is the database it leaves, `allowed' its
\* constraints.
Stmt(st, allowed, after) ==
  IF ~st.ok THEN st
  ELSE IF st.n = st.failAt \/ ~allowed THEN [st EXCEPT !.ok = FALSE]
  ELSE [st EXCEPT !.db = after, !.n = st.n + 1]

ChunksOf(d, articleId, sourceId) ==
  {c \in d.chunks : c.article_id = articleId /\ c.source_id = sourceId}

\* ON DELETE CASCADE from articles to chunks; chunks_vec is a virtual table
\* and no foreign key reaches it.
CascadeArticles(d, gone) ==
  [d EXCEPT !.articles = d.articles \ gone,
            !.chunks = {c \in d.chunks :
                          \A a \in gone : ~(c.article_id = a.id /\ c.source_id = a.source_id)}]

\* A faulty variant of deleteChunksByArticle: nothing is deleted.
deleteNoChunks(st, articleId, sourceId) == st

deleteChunksByArticle(st, articleId, sourceId) ==
  LET chunkIds == {c.id : c \in ChunksOf(st.db, articleId, sourceId)}
      st1 == IF chunkIds # {}
               THEN Stmt(st, TRUE,
                      [st.db EXCEPT !.chunks_vec = {v \in st.db.chunks_vec : v.rowid \notin chunkIds}])
               ELSE st
  IN Stmt(st1, TRUE,
       [st1.db EXCEPT !.chunks = st1.db.chunks \ ChunksOf(st1.db, articleId, sourceId)])

\* A faulty variant of upsertArticle: the conflict target is the id alone.
upsertArticleById(st, article, now) ==
  Stmt(st, \E s \in st.db.sources : s.id = article.sourceId,
    [st.db EXCEPT !.articles =
      {a \in st.db.articles : a.id # article.id}
      \cup {[id |-> article.id, source_id |-> article.sourceId, title |-> article.title,
             updated_at |-> toISOString(article.updatedAt),
             synced_at |-> toISOString(now)]}])

\* INSERT ... ON CONFLICT(id, source_id) DO UPDATE
upsertArticle(st, article, now) ==
  Stmt(st, \E s \in st.db.sources : s.id = article.sourceId,
    [st.db EXCEPT !.articles =
      {a \in st.db.articles : ~(a.id = article.id /\ a.source_id = article.sourceId)}
      \cup {[id |-> article.id, source_id |-> article.sourceId, title |-> article.title,
             updated_at |-> toISOString(article.updatedAt),
             synced_at |-> toISOString(now)]}])

\* INTEGER PRIMARY KEY AUTOINCREMENT: one more than the largest id ever used
NextChunkId(d) == d.seq + 1

insertChunk(st, chunk) ==
  LET chunkId == NextChunkId(st.db)
      st1 == Stmt(st, \E a \in st.db.articles : a.id = chunk.articleId /\ a.source_id = chunk.sourceId,
               [st.db EXCEPT !.chunks = st.db.chunks \cup
                               {[id |-> chunkId, article_id |-> chunk.articleId,
                                 source_id |-> chunk.sourceId, chunk_index |-> chunk.chunkIndex,
                                 text |-> chunk.text, token_count |-> chunk.tokenCount]},
                             !.seq = chunkId])
  IN Stmt(st1, \A v \in st1.db.chunks_vec : v.rowid # chunkId,
       [st1.db EXCEPT !.chunks_vec = st1.db.chunks_vec \cup
                        {[rowid |-> chunkId, embedding |-> chunk.embedding]}])

RECURSIVE insertChunksBatch(_, _)
insertChunksBatch(st, chunks) ==
  IF chunks = <<>> THEN st
  ELSE insertChunksBatch(insertChunk(st, Head(chunks)), Tail(chunks))

deleteArticle(st, id, sourceId) ==
  Stmt(st, TRUE,
    CascadeArticles(st.db, {a \in st.db.articles : a.id = id /\ a.source_id = sourceId}))

updateLastSynced(st, id, now) ==
  Stmt(st, TRUE,
    [st.db EXCEPT !.sources =
      {IF s.id = id THEN [s EXCEPT !.last_synced_at = toISOString(now)] ELSE s : s \in st.db.sources}])

\* A faulty variant of upsertSource: the row is replaced by a new one.
upsertSourceReplaces(d, id) ==
  [d EXCEPT !.sources = {s \in d.sources : s.id # id}
                          \cup {[id |-> id, last_synced_at |-> NULL, enabled |-> TRUE]}]

\* INSERT ... ON CONFLICT(id) DO UPDATE SET name, base_url, locale, enabled:
\* last_synced_at is left alone; the sources of the configurations are
\* enabled
upsertSource(d, id) ==
  IF \E s \in d.sources : s.id = id
    THEN [d EXCEPT !.sources = {IF s.id = id THEN [s EXCEPT !.enabled = TRUE] ELSE s :
                                  s \in d.sources}]
    ELSE [d EXCEPT !.sources = d.sources
                                 \cup {[id |-> id, last_synced_at |-> NULL, enabled |-> TRUE]}]

\* UPDATE sources SET enabled = ? WHERE id = ?
setSourceEnabled(d, id, enabled) ==
  [d EXCEPT !.sources = {IF s.id = id THEN [s EXCEPT !.enabled = enabled] ELSE s :
                           s \in d.sources}]

\* DELETE FROM sources: cascades to articles and from them to chunks
deleteSource(d, id) ==
  [CascadeArticles(d, {a \in d.articles : a.source_id = id})
     EXCEPT !.sources = {s \in d.sources : s.id # id}]

(***************************************************************************)
(* The staleness diff.                                                     *)
(***************************************************************************)
\* new Map(existingArticles.map(a => [a.id, new Date(a.updated_at)]))
ExistingMap(d, sourceId) ==
  LET rows == {a \in d.articles : a.source_id = sourceId}
  IN [id \in {a.id : a \in rows} |->
        DateOf((CHOOSE a \in rows : a.id = id).updated_at)]

IsStale(existingMap, fresh) ==
  fresh.id \notin DOMAIN existingMap \/ DateOf(fresh.updated_at) > existingMap[fresh.id]

\* The loop over the fresh articles: each one is looked up in the map and
\* then removed from it.
RECURSIVE StaleLoop(_, _, _)
StaleLoop(freshArticles, existingMap, staleIds) ==
  IF freshArticles = <<>>
    THEN staleIds \cup DOMAIN existingMap
    ELSE LET fresh == Head(freshArticles)
         IN StaleLoop(Tail(freshArticles),
                      [id \in DOMAIN existingMap \ {fresh.id} |-> existingMap[id]],
                      IF IsStale(existingMap, fresh) THEN staleIds \cup {fresh.id} ELSE staleIds)

getStaleArticleIds(d, sourceId, freshArticles) ==
  StaleLoop(freshArticles, ExistingMap(d, sourceId), {})

(***************************************************************************)
(* syncSource.                                                             *)
(***************************************************************************)
SeqIds(articles) == {articles[i].id : i \in 1..Len(articles)}

\* A faulty variant of the filter: every fetched article is kept.
FilterNothing(articles, staleIds) == articles

RECURSIVE FilterStale(_, _)
FilterStale(articles, staleIds) ==
  IF articles = <<>> THEN <<>>
  ELSE IF Head(articles).id \in staleIds
         THEN <<Head(articles)>> \o FilterStale(Tail(articles), staleIds)
         ELSE FilterStale(Tail(articles), staleIds)

\* A faulty variant of phase 2: the full-resync flag is ignored.
StaleIdsByTimestamp(d, sourceId, articles, fullResync) ==
  getStaleArticleIds(d, sourceId, [i \in 1..Len(articles) |->
    [id |-> articles[i].id, updated_at |-> articles[i].updated_at]])

\* Phase 2: the ids to process
StaleIds(d, sourceId, articles, fullResync) ==
  IF fullResync THEN SeqIds(articles)
  ELSE getStaleArticleIds(d, sourceId, [i \in 1..Len(articles) |->
         [id |-> articles[i].id, updated_at |-> articles[i].updated_at]])

\* Phase 3: parse and chunk one article
ArticleChunks(article) ==
  [articleId |-> article.id,
   title |-> article.title.name,
   updatedAt |-> DateOf(article.updated_at),
   chunks |-> chunkText(parseHTMLStructured(article.body), article.title.name,
                        article.title.length, Config.chunkSize, Config.chunkOverlap)]

\* Phase 4: allArticleChunks.flatMap(ac => ac.chunks.map(c => c.text))
RECURSIVE AllChunkTexts(_)
AllChunkTexts(allArticleChunks) ==
  IF allArticleChunks = <<>> THEN <<>>
  ELSE [i \in 1..Len(Head(allArticleChunks).chunks) |-> Head(allArticleChunks).chunks[i].text]
       \o AllChunkTexts(Tail(allArticleChunks))

\* Phase 5, the loop over allArticleChunks inside the transaction;
\* embeddingIndex counts the vectors consumed so far.
RECURSIVE StoreArticles(_, _, _, _, _, _)
StoreArticles(st, allArticleChunks, embeddings, embeddingIndex, sourceId, now) ==
  IF allArticleChunks = <<>> THEN st
  ELSE LET articleChunks == Head(allArticleChunks)
           st1 == deleteChunksByArticle(st, articleChunks.articleId, sourceId)
           st2 == upsertArticle(st1, [id |-> articleChunks.articleId, sourceId |-> sourceId,
                                      title |-> articleChunks.title,
                                      updatedAt |-> articleChunks.updatedAt], now)
           chunksWithEmbeddings ==
             [i \in 1..Len(articleChunks.chunks) |->
                [articleId |-> articleChunks.articleId, sourceId |-> sourceId,
                 chunkIndex |-> articleChunks.chunks[i].index,
                 text |-> articleChunks.chunks[i].text,
                 tokenCount |-> articleChunks.chunks[i].tokenCount,
                 embedding |-> embeddings[embeddingIndex + i]]]
           st3 == insertChunksBatch(st2, chunksWithEmbeddings)
       IN StoreArticles(st3, Tail(allArticleChunks), embeddings,
                        embeddingIndex + Len(articleChunks.chunks), sourceId, now)

\* The deletion of the articles that are no longer in the listing
RECURSIVE DeleteOrphans(_, _, _)
DeleteOrphans(st, ids, sourceId) ==
  IF ids = {} THEN st
  ELSE LET id == CHOOSE x \in ids : \A y \in ids : x <= y
       IN DeleteOrphans(deleteArticle(st, id, sourceId), ids \ {id}, sourceId)

\* A faulty variant of the rollback: the statements run so far stay.
RollbackNothing(before, st) == st.db

\* What the failed transaction leaves: db.transaction rolls back to the
\* database as it was at BEGIN.
Rollback(before, st) == before

\* storeTransaction(): the database after it, whether it committed, the
\* statements it ran and the working database its last statement left
storeTransaction(d, sourceId, articles, allArticleChunks, embeddings, now, failAt) ==
  LET st1 == StoreArticles(Begin(d, failAt), allArticleChunks, embeddings, 0, sourceId, now)
      currentArticleIds == {a.id : a \in {x \in st1.db.articles : x.source_id = sourceId}}
      st2 == DeleteOrphans(st1, currentArticleIds \ SeqIds(articles), sourceId)
      st3 == updateLastSynced(st2, sourceId, now)
  IN [db |-> IF st3.ok THEN st3.db ELSE Rollback(d, st3), ok |-> st3.ok, n |-> st3.n,
      work |-> st3.db]

(***************************************************************************)
(* State.                                                                  *)
(*   db     the store                                                      *)
(*   pc     where the one sync of the process stands: "idle", "fetching"   *)
(*          (awaiting fetchAllArticles), "embedding" (awaiting             *)
(*          generateEmbeddingsBatch), "done" (syncSource has returned or   *)
(*          thrown)                                                        *)
(*   run    the locals of that sync, its outcome, and the store as it was  *)
(*          when the sync started                                          *)
(*   last   the source and listing of the latest sync that returned        *)
(*          without error, while nothing else has written to the store     *)
(*   clock  the number of syncs started; the time new Date() reads         *)
(***************************************************************************)
VARIABLES db, pc, run, last, clock, http, batch, cmd, chunking, query, conn

vars == <<db, pc, run, last, clock, http, batch, cmd, chunking, query, conn>>

\* The parts of the state that the sync coordinator reaches only through
\* fetchAllArticles/fetchSections/fetchCategories (http), through
\* generateEmbeddingsBatch (batch) and from the sync command (cmd); they are
\* described with the actions that move them.
NoWait == [none |-> TRUE]
NoResponse == [none |-> TRUE]
NoError == [none |-> TRUE]

\* One paging loop (fetchAllArticles, fetchSections or fetchCategories):
\*   state     "idle", "requesting" (awaiting fetch inside fetchWithRetry),
\*             "returned", "threw"
\*   url       nextPage, the cursor of the page being requested
\*   attempt   the loop variable of fetchWithRetry
\*   acc       the articles collected, or the map filled, so far
\*   error     what the loop threw
\* and, as history: the requests made for `url' by the fetchWithRetry in
\* progress, the response to the last request, the backoff sleep that
\* followed it, the cursors requested in order, and whether the loop ended
\* on a failure.
NoFetcher ==
  [state |-> "idle", url |-> NULL, attempt |-> 0, acc |-> <<>>, error |-> NoError,
   requests |-> 0, last |-> NoResponse, slept |-> NoWait, cursors |-> <<>>,
   failed |-> FALSE]

\* origin: the pages the Help Center serves for the three listings
NoHttp ==
  [origin |-> [articles |-> <<>>, sections |-> <<>>, categories |-> <<>>],
   articles |-> NoFetcher, sections |-> NoFetcher, categories |-> NoFetcher]
NoBatch ==
  [phase |-> "none", texts |-> <<>>, concurrency |-> 0, inflight |-> {},
   nextIndex |-> 0, results |-> <<>>, completed |-> 0, failed |-> {},
   outOfOrder |-> FALSE, calls |-> <<>>, progress |-> <<>>]
\* The sync command: the sources it loops over, the results of the sources
\* synced so far and, once it has ended, its exit code; as history, the
\* source whose sync threw, the store before that sync and the state each
\* synced source had when its sync returned.
NoCmd ==
  [phase |-> "none", sources |-> <<>>, fullResync |-> FALSE, results |-> <<>>,
   failed |-> "", pre |-> EmptyDb, exitCode |-> 0]

\* chunkText as it is called for one text (chunking), a search request
\* (query) and the module state of src/db/index.ts with the getDatabase
\* calls in progress (conn); they are described with the actions that
\* move them.
NoChunking ==
  [phase |-> "none", text |-> <<>>, titleLength |-> 0, targetSize |-> 0,
   overlap |-> 0, chunks |-> <<>>]
NotGiven == [given |-> FALSE]
NoQuery ==
  [phase |-> "none", text |-> 0, limitArg |-> NotGiven, sourcesArg |-> NotGiven,
   limit |-> 0, asked |-> NotGiven, queries |-> 0, seen |-> EmptyDb,
   rows |-> <<>>, results |-> <<>>, error |-> NoError,
   deduplicated |-> <<>>, again |-> <<>>]
\* Callers of getDatabase; a call is "idle" (not made), "awaiting"
\* (suspended at await ensureDirectories()), "returned" with its handle or
\* "threw".  opened counts the connections opened so far, open is the set
\* of those not closed.
Callers == {1, 2}
NoCall == [state |-> "idle", handle |-> 0]
NoConn ==
  [dbInstance |-> NULL, opened |-> 0, open |-> {},
   calls |-> [c \in Callers |-> NoCall]]

NoRun ==
  [source |-> "", fullResync |-> FALSE, pre |-> EmptyDb, articles |-> <<>>,
   staleIds |-> {}, allArticleChunks |-> <<>>, embeddings |-> <<>>,
   embedCalls |-> 0, status |-> "none", failedAt |-> -1, statements |-> 0,
   result |-> [articlesProcessed |-> 0, articlesFetched |-> 0, chunksCreated |-> 0]]

NoLast == [source |-> "", articles |-> <<>>]

Init ==
  /\ db = EmptyDb
  /\ pc = "idle"
  /\ run = NoRun
  /\ last = NoLast
  /\ clock = 0
  /\ http = NoHttp
  /\ batch = NoBatch
  /\ cmd = NoCmd
  /\ chunking = NoChunking
  /\ query = NoQuery
  /\ conn = NoConn

\* What is left of a sync that threw: no result, no locals
Thrown(r, status) ==
  [NoRun EXCEPT !.source = r.source, !.fullResync = r.fullResync, !.pre = r.pre,
                !.status = status]

\* `sources add', and the upsert of every configured source that starts
\* the sync command
UpsertSource(id) ==
  /\ pc = "idle"
  /\ db' = upsertSource(db, id)
  /\ UNCHANGED <<pc, run, last, clock, http, batch, cmd, chunking, query, conn>>

\* `sources remove'
DeleteSource(id) ==
  /\ pc = "idle"
  /\ \E s \in db.sources : s.id = id
  /\ db' = deleteSource(db, id)
  /\ last' = NoLast
  /\ UNCHANGED <<pc, run, clock, http, batch, cmd, chunking, query, conn>>

\* syncSource is called for a source of the store (index.ts 30-54)
SyncBegin(sourceId, fullResync) ==
  /\ pc = "idle"
  /\ clock < MaxRuns
  /\ \E s \in db.sources : s.id = sourceId
  /\ clock' = clock + 1
  /\ run' = [NoRun EXCEPT !.source = sourceId, !.fullResync = fullResync,
                          !.pre = db, !.status = "running"]
  /\ pc' = "fetching"
  /\ UNCHANGED <<db, last, http, batch, cmd, chunking, query, conn>>

\* fetchAllArticles throws (index.ts 47)
SyncFetchFail ==
  /\ pc = "fetching"
  /\ run' = Thrown(run, "fetch_failed")
  /\ pc' = "done"
  /\ UNCHANGED <<db, last, clock, http, batch, cmd, chunking, query, conn>>

\* fetchAllArticles returns `articles'; the diff, the fast path and the
\* parse/chunk loop run up to the next await (index.ts 47-148)
SyncFetched(articles) ==
  /\ pc = "fetching"
  /\ LET staleIds == StaleIds(db, run.source, articles, run.fullResync)
         articlesToProcess == FilterStale(articles, staleIds)
         allArticleChunks == [i \in 1..Len(articlesToProcess) |-> ArticleChunks(articlesToProcess[i])]
     IN IF Len(articlesToProcess) = 0
          THEN /\ run' = [run EXCEPT !.articles = articles, !.staleIds = staleIds,
                                     !.status = "noop",
                                     !.result = [articlesProcessed |-> 0,
                                                 articlesFetched |-> Len(articles),
                                                 chunksCreated |-> 0]]
               /\ pc' = "done"
          ELSE /\ run' = [run EXCEPT !.articles = articles, !.staleIds = staleIds,
                                     !.allArticleChunks = allArticleChunks]
               /\ pc' = "embedding"
  /\ UNCHANGED <<db, last, clock, http, batch, cmd, chunking, query, conn>>

\* A faulty variant of SyncEmbedFail: the articles were upserted before the
\* embeddings were awaited.
SyncEmbedFailAfterUpsert ==
  /\ pc = "embedding"
  /\ db' = [db EXCEPT !.articles = db.articles \cup
              {[id |-> run.allArticleChunks[i].articleId, source_id |-> run.source,
                title |-> run.allArticleChunks[i].title,
                updated_at |-> toISOString(run.allArticleChunks[i].updatedAt),
                synced_at |-> toISOString(clock)] : i \in 1..Len(run.allArticleChunks)}]
  /\ run' = Thrown(run, "embed_failed")
  /\ pc' = "done"
  /\ UNCHANGED <<last, clock, http, batch, cmd, chunking, query, conn>>

\* generateEmbeddingsBatch throws: syncSource throws with it, its locals
\* are dropped (index.ts 150-162)
SyncEmbedFail ==
  /\ pc = "embedding"
  /\ run' = Thrown(run, "embed_failed")
  /\ pc' = "done"
  /\ UNCHANGED <<db, last, clock, http, batch, cmd, chunking, query, conn>>

\* generateEmbeddingsBatch returns one vector per text, in input order
Embeddings(allArticleChunks) ==
  LET texts == AllChunkTexts(allArticleChunks)
  IN [i \in 1..Len(texts) |-> Embedding(texts[i])]

\* The statements the transaction of the sync in progress runs when none fails
Statements ==
  storeTransaction(db, run.source, run.articles, run.allArticleChunks,
                   Embeddings(run.allArticleChunks), clock, -1).n

\* generateEmbeddingsBatch returns; with no further await storeTransaction()
\* commits and syncSource returns (index.ts 150-240)
SyncStore ==
  /\ pc = "embedding"
  /\ LET embeddings == Embeddings(run.allArticleChunks)
         tx == storeTransaction(db, run.source, run.articles, run.allArticleChunks,
                                embeddings, clock, -1)
     IN /\ tx.ok
        /\ db' = tx.db
        /\ run' = [run EXCEPT !.embeddings = embeddings,
                              !.embedCalls = Len(embeddings),
                              !.status = "ok",
                              !.result = [articlesProcessed |-> Len(run.allArticleChunks),
                                          articlesFetched |-> Len(run.articles),
                                          chunksCreated |-> Len(embeddings)]]
  /\ pc' = "done"
  /\ UNCHANGED <<last, clock, http, batch, cmd, chunking, query, conn>>

\* generateEmbeddingsBatch returns and a statement of the transaction
\* throws: the one after `failAt' statements
SyncStoreFail(failAt) ==
  /\ pc = "embedding"
  /\ LET tx == storeTransaction(db, run.source, run.articles, run.allArticleChunks,
                                Embeddings(run.allArticleChunks), clock, failAt)
     IN /\ ~tx.ok
        /\ db' = tx.db
        /\ run' = [Thrown(run, "commit_failed") EXCEPT !.failedAt = tx.n,
                                                       !.statements = Statements]
  /\ pc' = "done"
  /\ UNCHANGED <<last, clock, http, batch, cmd, chunking, query, conn>>

\* the caller abandons the sync while it awaits
SyncAbandon ==
  /\ pc \in {"fetching", "embedding"}
  /\ run' = Thrown(run, "abandoned")
  /\ pc' = "done"
  /\ UNCHANGED <<db, last, clock, http, batch, cmd, chunking, query, conn>>

\* the caller takes the result (or the error); the next command can start
SyncReturn ==
  /\ pc = "done"
  /\ last' = IF run.status \in {"ok", "noop"}
               THEN [source |-> run.source, articles |-> run.articles]
               ELSE last
  /\ run' = NoRun
  /\ pc' = "idle"
  /\ UNCHANGED <<db, clock, http, batch, cmd, chunking, query, conn>>

Next ==
  \/ \E id \in SourceIds : UpsertSource(id)
  \/ \E id \in SourceIds : DeleteSource(id)
  \/ \E sourceId \in SourceIds, fullResync \in BOOLEAN : SyncBegin(sourceId, fullResync)
  \/ SyncFetchFail
  \/ \E articles \in Listings : SyncFetched(articles)
  \/ SyncEmbedFail
  \/ SyncStore
  \/ \E failAt \in 0..(Statements - 1) : SyncStoreFail(failAt)
  \/ SyncAbandon
  \/ SyncReturn

Spec == Init /\ [][Next]_vars

(***************************************************************************)
(* Vocabulary of the properties.                                           *)
(***************************************************************************)
\* syncSource has returned a result (not thrown)
Returned == pc = "done" /\ run.status \in {"ok", "noop"}

\* syncSource has returned after committing its transaction
Committed == pc = "done" /\ run.status = "ok"

ChunkIds(d) == {c.id : c \in d.chunks}
VecIds(d) == {v.rowid : v \in d.chunks_vec}

ArticleRows(d, sourceId) == {a \in d.articles : a.source_id = sourceId}

\* The ids of the articles the sync in progress processes
ProcessedIds == {run.allArticleChunks[i].articleId : i \in 1..Len(run.allArticleChunks)}

\* The chunks chunkText computed for the last occurrence of an article among
\* those processed, as rows without their id
FreshRows(articleId, sourceId) ==
  LET last_i == CHOOSE i \in 1..Len(run.allArticleChunks) :
                  /\ run.allArticleChunks[i].articleId = articleId
                  /\ \A j \in (i + 1)..Len(run.allArticleChunks) :
                       run.allArticleChunks[j].articleId # articleId
      chunks == run.allArticleChunks[last_i].chunks
  IN {[article_id |-> articleId, source_id |-> sourceId, chunk_index |-> chunks[k].index,
       text |-> chunks[k].text, token_count |-> chunks[k].tokenCount] : k \in 1..Len(chunks)}

WithoutId(c) ==
  [article_id |-> c.article_id, source_id |-> c.source_id, chunk_index |-> c.chunk_index,
   text |-> c.text, token_count |-> c.token_count]

(***************************************************************************)
(* C1.  After a syncSource run that returns without error, no article of   *)
(* the source whose id is absent from the fetched listing is still         *)
(* stored, nor any chunk or embedding it had before the run.               *)
(* Violated: when no fetched article is stale the run returns before the   *)
(* deletion of absent articles.                                            *)
(***************************************************************************)
C1_AbsentArticlesDeleted ==
  Returned =>
    /\ \A a \in ArticleRows(db, run.source) : a.id \in SeqIds(run.articles)
    /\ \A a \in ArticleRows(run.pre, run.source) :
         a.id \notin SeqIds(run.articles) =>
           \A c \in ChunksOf(run.pre, a.id, run.source) :
             c.id \notin ChunkIds(db) /\ c.id \notin VecIds(db)

(***************************************************************************)
(* C2.  In every state (the transaction is one step, so every state is at  *)
(* rest) the chunk ids are the embedding row ids.                          *)
(* Violated: the cascade from articles deletes chunks, not chunks_vec rows.*)
(***************************************************************************)
C2_ChunksPairedWithEmbeddings == ChunkIds(db) = VecIds(db)

(***************************************************************************)
(* C3.  When a statement of the commit fails, the store after syncSource   *)
(* has thrown is the store as it was when the sync started (sources with   *)
(* their lastSyncedAt, articles, chunks, embeddings, id sequence); and     *)
(* the lastSyncedAt update is the last statement: a transaction stopped    *)
(* at its last statement has written everything the committed one writes   *)
(* except the timestamp.                                                   *)
(***************************************************************************)
C3_FailedCommitRestores ==
  /\ (pc = "done" /\ run.status = "commit_failed") => db = run.pre
  /\ (pc = "embedding") =>
       LET embeddings == Embeddings(run.allArticleChunks)
           whole == storeTransaction(db, run.source, run.articles, run.allArticleChunks,
                                     embeddings, clock, -1)
           cut == storeTransaction(db, run.source, run.articles, run.allArticleChunks,
                                   embeddings, clock, whole.n - 1)
       IN /\ ~cut.ok /\ cut.db = db
          /\ cut.work.sources = db.sources
          /\ cut.work = [whole.db EXCEPT !.sources = db.sources]
          /\ whole.db.sources # db.sources

\* a commit that failed at its last statement, over a store that held chunks
C3_Witness ==
  /\ pc = "done" /\ run.status = "commit_failed"
  /\ run.failedAt = run.statements - 1
  /\ run.failedAt > 0
  /\ run.pre.chunks # {}

(***************************************************************************)
(* C4.  Before the commit step a sync writes nothing: while it awaits the  *)
(* fetch or the embeddings, and after it failed or was abandoned there,    *)
(* the store is the store as it was when the sync started.                 *)
(***************************************************************************)
C4_NoWriteBeforeCommit ==
  (\/ pc \in {"fetching", "embedding"}
   \/ (pc = "done" /\ run.status \in {"fetch_failed", "embed_failed", "abandoned"}))
  => db = run.pre

\* the embedding batch failed in a sync over a store that held articles
C4_Witness ==
  /\ pc = "done" /\ run.status = "embed_failed"
  /\ ArticleRows(run.pre, run.source) # {}
  /\ db.chunks # {}

(***************************************************************************)
(* C5.  In an incremental sync a fetched article that is stored with       *)
(* updatedAt T1 and fetched with updated_at T2 is processed iff T2 > T1,   *)
(* and a fetched article that is not stored is processed.                  *)
(* Violated: an article that the listing holds twice is processed although *)
(* its updated_at is not newer.                                            *)
(***************************************************************************)
C5_ProcessedIffNewer ==
  ((pc = "embedding" \/ Returned) /\ ~run.fullResync) =>
    \A i \in 1..Len(run.articles) :
      LET fresh == run.articles[i]
          stored == {a \in ArticleRows(run.pre, run.source) : a.id = fresh.id}
      IN IF stored = {}
           THEN fresh.id \in ProcessedIds
           ELSE fresh.id \in ProcessedIds <=>
                  \A a \in stored : DateOf(fresh.updated_at) > DateOf(a.updated_at)

(***************************************************************************)
(* C6.  A syncSource run that follows a run of the same source which       *)
(* returned without error, against the same listing and with nothing else  *)
(* written in between, is a no-op: no embedding call, no write.  Stated    *)
(* for a second run with the full-resync flag off.                         *)
(* Violated: an article that the listing holds twice is processed again    *)
(* by every run.                                                           *)
(***************************************************************************)
C6_SecondRunNoop ==
  (/\ Returned
   /\ ~run.fullResync
   /\ last.source = run.source
   /\ last.articles = run.articles)
  => (run.status = "noop" /\ run.embedCalls = 0 /\ db = run.pre)

(***************************************************************************)
(* C7.  If the diff yields no stale article, syncSource returns without    *)
(* an embedding call and without a write, reporting 0 articles processed   *)
(* and 0 chunks created.                                                   *)
(***************************************************************************)
C7_NothingStaleNoWrite ==
  (Returned /\ run.staleIds = {}) =>
    /\ run.status = "noop"
    /\ run.embedCalls = 0
    /\ db = run.pre
    /\ run.result.articlesProcessed = 0
    /\ run.result.chunksCreated = 0

\* a sync that fetched articles, all of them up to date
C7_Witness ==
  /\ Returned /\ run.staleIds = {}
  /\ Len(run.articles) > 0
  /\ ~run.fullResync

(***************************************************************************)
(* C8.  With the full-resync flag every fetched article is processed       *)
(* whatever the stored timestamps are; after the commit every chunk        *)
(* stored for a fetched article is a row created by this run, and one      *)
(* embedding call was made for each chunk computed.                        *)
(***************************************************************************)
C8_FullResyncProcessesAll ==
  /\ ((pc = "embedding" \/ Returned) /\ run.fullResync) =>
       /\ run.staleIds = SeqIds(run.articles)
       /\ Len(run.allArticleChunks) = Len(run.articles)
       /\ \A i \in 1..Len(run.articles) :
            run.allArticleChunks[i].articleId = run.articles[i].id
  /\ (Committed /\ run.fullResync) =>
       /\ run.embedCalls = Len(AllChunkTexts(run.allArticleChunks))
       /\ \A id \in SeqIds(run.articles) :
            /\ ChunksOf(db, id, run.source) # {}
            /\ \A c \in ChunksOf(db, id, run.source) :
                 c.id > run.pre.seq /\ c.id \in VecIds(db)
            /\ \A c \in ChunksOf(run.pre, id, run.source) : c \notin db.chunks

\* a committed full resync of an article stored with the updated_at fetched
C8_Witness ==
  /\ Committed /\ run.fullResync
  /\ \E i \in 1..Len(run.articles) :
       \E a \in ArticleRows(run.pre, run.source) :
         /\ a.id = run.articles[i].id
         /\ DateOf(a.updated_at) = DateOf(run.articles[i].updated_at)
         /\ ChunksOf(run.pre, a.id, run.source) # {}

(***************************************************************************)
(* C9.  After a committed sync the chunks stored for a processed article   *)
(* are exactly the chunks computed for it by this run, each a new row      *)
(* with its embedding; no chunk and no embedding of the article's previous *)
(* version remains.                                                        *)
(***************************************************************************)
C9_ChunksReplaced ==
  Committed =>
    \A id \in ProcessedIds :
      LET now_ == ChunksOf(db, id, run.source)
          before == ChunksOf(run.pre, id, run.source)
      IN /\ {WithoutId(c) : c \in now_} = FreshRows(id, run.source)
         /\ Cardinality(now_) = Cardinality(FreshRows(id, run.source))
         /\ \A c \in now_ :
              /\ c.id > run.pre.seq
              /\ [rowid |-> c.id, embedding |-> Embedding(c.text)] \in db.chunks_vec
         /\ \A c \in before : c.id \notin ChunkIds(db) /\ c.id \notin VecIds(db)

\* a committed sync that processed an article which had chunks stored
C9_Witness ==
  /\ Committed
  /\ \E id \in ProcessedIds :
       /\ ChunksOf(run.pre, id, run.source) # {}
       /\ {WithoutId(c) : c \in ChunksOf(run.pre, id, run.source)} # FreshRows(id, run.source)

(***************************************************************************)
(* C10.  After a sync that returned without error, every article of the    *)
(* source has as many embeddings for its chunks as chunks, and the         *)
(* chunkIndex values of its chunks are 0..count-1, each once.              *)
(***************************************************************************)
C10_PairedAndContiguous ==
  Returned =>
    \A a \in ArticleRows(db, run.source) :
      LET cs == ChunksOf(db, a.id, run.source)
      IN /\ Cardinality({v \in db.chunks_vec : v.rowid \in {c.id : c \in cs}}) = Cardinality(cs)
         /\ {c.chunk_index : c \in cs} = 0..(Cardinality(cs) - 1)

\* a committed sync that stored an article of three chunks or more
C10_Witness ==
  /\ Committed
  /\ \E a \in ArticleRows(db, run.source) :
       Cardinality(ChunksOf(db, a.id, run.source)) >= 3

(***************************************************************************)
(* C11.  deleteSource(id) leaves no row of the source: not the source, not *)
(* its articles, not their chunks, not the embeddings of these chunks; the *)
(* rows of the other sources stay.                                         *)
(* Violated: the cascade ends at chunks; the chunks_vec rows of the        *)
(* source's chunks stay.                                                   *)
(***************************************************************************)
C11_DeleteSourceRemovesAll ==
  [][\A id \in SourceIds :
       DeleteSource(id) =>
         LET gone == {c \in db.chunks : c.source_id = id}
             kept == db.chunks \ gone
         IN /\ \A s \in db'.sources : s.id # id
            /\ ArticleRows(db', id) = {}
            /\ \A c \in db'.chunks : c.source_id # id
            /\ \A v \in db'.chunks_vec : v.rowid \notin {c.id : c \in gone}
            /\ {s \in db.sources : s.id # id} \subseteq db'.sources
            /\ {a \in db.articles : a.source_id # id} \subseteq db'.articles
            /\ kept \subseteq db'.chunks
            /\ {v \in db.chunks_vec : v.rowid \in {c.id : c \in kept}} \subseteq db'.chunks_vec]_vars

(***************************************************************************)
(* C37.  No step of a sync of source X (the call, the fetch, the diff,     *)
(* the embedding, the commit or the failed commit, the return) changes     *)
(* what is stored for another source Y: its row in sources with its        *)
(* last_synced_at, its articles, its chunks and the vectors of its         *)
(* chunks; also when X and Y hold articles of the same id.                 *)
(***************************************************************************)
C37_OtherSourcesUntouched ==
  [][(pc # "idle" \/ pc' # "idle") =>
       LET x == IF pc = "idle" THEN run'.source ELSE run.source
           Stored(d, y) ==
             [source |-> {r \in d.sources : r.id = y},
              articles |-> ArticleRows(d, y),
              chunks |-> {c \in d.chunks : c.source_id = y},
              vectors |-> {v \in d.chunks_vec :
                             \E c \in d.chunks : c.source_id = y /\ c.id = v.rowid}]
       IN \A y \in SourceIds \ {x} : Stored(db', y) = Stored(db, y)]_vars

\* a sync of "a" has committed an article whose id an article of "b" has
\* too, "b" having chunks and vectors
C37_Witness ==
  /\ Committed
  /\ run.source = "a"
  /\ db # run.pre
  /\ \E r \in ArticleRows(db, "b") : r.id \in ProcessedIds
  /\ \E c \in db.chunks : c.source_id = "b" /\ c.id \in VecIds(db)
  /\ \E s \in db.sources : s.id = "b" /\ s.last_synced_at # NULL

(***************************************************************************)
(* generateEmbeddingsBatch (search/embeddings.ts).  processQueue starts    *)
(* min(concurrency, N) workers; a worker takes the next index, awaits      *)
(* generateEmbedding for it, stores the vector at that index and loops.    *)
(* Between two steps every live worker awaits exactly one call, so the     *)
(* workers are the calls in flight.  `batch' holds                         *)
(*   phase       "none", or the promise of processQueue: "running",        *)
(*               "resolved", "rejected"                                    *)
(*   texts       the input                                                 *)
(*   inflight    the indices whose call has started and not settled        *)
(*   nextIndex   the indices taken so far                                  *)
(*   results     the array `results', a function on the indices written    *)
(*   completed   the counter passed to onProgress                          *)
(*   failed      the indices whose call has failed                         *)
(*   outOfOrder  whether a call has resolved while one for an earlier      *)
(*               index was still in flight (history, not program state)    *)
(*   calls       the indices processor was called for, in call order       *)
(*               (history)                                                 *)
(*   progress    the values of `completed' onProgress was called with, in  *)
(*               call order (history)                                      *)
(* Indices count from 1.                                                   *)
(***************************************************************************)
\* The concurrency syncSource passes.
SyncConcurrency == 5

Min(a, b) == IF a < b THEN a ELSE b

Undefined == [undefined |-> TRUE]

\* A faulty variant of WorkerCount: one worker per item.
WorkerPerItem(concurrency, n) == n

\* Array.from({ length: Math.min(concurrency, items.length) }, ...)
WorkerCount(concurrency, n) == Min(concurrency, n)

\* processQueue up to `await Promise.all(workers)': every worker has taken
\* its first index and started its call
processQueue(texts, concurrency) ==
  LET workers == WorkerCount(concurrency, Len(texts))
  IN [NoBatch EXCEPT !.phase = "running", !.texts = texts, !.concurrency = concurrency,
                     !.inflight = 1..workers, !.nextIndex = workers,
                     !.calls = [i \in 1..workers |-> i]]

\* generateEmbeddingsBatch(texts, config, concurrency)
generateEmbeddingsBatch(texts, concurrency) ==
  IF Len(texts) = 0
    THEN [NoBatch EXCEPT !.phase = "resolved", !.concurrency = concurrency]
    ELSE processQueue(texts, concurrency)

\* A faulty variant of SetResult: the vector is pushed, in completion order.
PushResult(results, index, result) ==
  LET at == Cardinality(DOMAIN results) + 1
  IN [i \in DOMAIN results \cup {at} |-> IF i = at THEN result ELSE results[i]]

\* results[index] = result
SetResult(results, index, result) ==
  [i \in DOMAIN results \cup {index} |-> IF i = index THEN result ELSE results[i]]

\* the array a caller of processQueue receives: its length is one past the
\* largest index written, a hole reads undefined
ResultArray(results) ==
  LET length == IF DOMAIN results = {} THEN 0
                ELSE CHOOSE n \in DOMAIN results : \A m \in DOMAIN results : m <= n
  IN [i \in 1..length |-> IF i \in DOMAIN results THEN results[i] ELSE Undefined]

\* Promise.all(workers) settles: it resolves when the last worker has left
\* its loop and none has thrown
AllSettled(b) ==
  IF b.phase = "running" /\ b.inflight = {} THEN [b EXCEPT !.phase = "resolved"] ELSE b

\* A faulty variant of WorkerThrows: the failure is swallowed and the
\* worker leaves its loop as if done.
WorkerSwallows(b, index) ==
  AllSettled([b EXCEPT !.inflight = @ \ {index}, !.failed = @ \cup {index}])

\* the call for `index' rejects: the worker rethrows, which rejects
\* Promise.all unless it is settled already
WorkerThrows(b, index) ==
  [b EXCEPT !.inflight = @ \ {index},
            !.failed = @ \cup {index},
            !.phase = IF @ = "running" THEN "rejected" ELSE @]

\* A faulty variant of WorkerContinues: the worker leaves its loop after
\* its first item.
WorkerLeaves(b, index, result) ==
  AllSettled([b EXCEPT !.results = SetResult(@, index, result),
                       !.completed = @ + 1,
                       !.progress = Append(@, b.completed + 1),
                       !.inflight = @ \ {index}])

\* the call for `index' resolves with `result': the worker stores it,
\* reports the progress and takes the next index, if one is left
WorkerContinues(b, index, result) ==
  LET more == b.nextIndex < Len(b.texts)
  IN AllSettled([b EXCEPT !.results = SetResult(@, index, result),
                          !.completed = @ + 1,
                          !.inflight = (@ \ {index}) \cup (IF more THEN {b.nextIndex + 1} ELSE {}),
                          !.nextIndex = IF more THEN @ + 1 ELSE @,
                          !.calls = IF more THEN Append(@, b.nextIndex + 1) ELSE @,
                          !.progress = Append(@, b.completed + 1),
                          !.outOfOrder = @ \/ \E i \in b.inflight : i < index])

(***************************************************************************)
(* One syncSource run with the embedding batch in detail.  It starts       *)
(* where a sync of source "a" awaits its fetch, over a store at rest.      *)
(***************************************************************************)
\* The store after a committed sync of `sourceId' with listing `articles'
\* at time `now'
SyncedStore(d, sourceId, articles, now) ==
  LET allArticleChunks == [i \in 1..Len(articles) |-> ArticleChunks(articles[i])]
  IN storeTransaction(d, sourceId, articles, allArticleChunks,
                      Embeddings(allArticleChunks), now, -1).db

\* Stores the sync command leaves: source "a" never synced, or synced once
StoresAtRest ==
  {upsertSource(EmptyDb, "a"),
   SyncedStore(upsertSource(EmptyDb, "a"), "a", <<OriginArticle(1, 1)>>, 1),
   SyncedStore(upsertSource(EmptyDb, "a"), "a", <<OriginArticle(1, 2), OriginArticle(2, 2)>>, 1)}

EmbedInit ==
  /\ db \in StoresAtRest
  /\ pc = "fetching"
  /\ \E fullResync \in BOOLEAN :
       run = [NoRun EXCEPT !.source = "a", !.fullResync = fullResync,
                           !.pre = db, !.status = "running"]
  /\ last = NoLast
  /\ clock = 2
  /\ http = NoHttp
  /\ batch = NoBatch
  /\ cmd = NoCmd
  /\ chunking = NoChunking
  /\ query = NoQuery
  /\ conn = NoConn

\* syncSource calls generateEmbeddingsBatch(allChunkTexts, config.ollama, 5)
\* (index.ts 139-162)
BatchStart ==
  /\ pc = "embedding"
  /\ batch.phase = "none"
  /\ batch' = generateEmbeddingsBatch(AllChunkTexts(run.allArticleChunks), SyncConcurrency)
  /\ UNCHANGED <<db, pc, run, last, clock, http, cmd, chunking, query, conn>>

\* generateEmbedding for texts[index] resolves
EmbeddingResolves(index) ==
  /\ batch.phase # "none"
  /\ index \in batch.inflight
  /\ batch' = WorkerContinues(batch, index, Embedding(batch.texts[index]))
  /\ UNCHANGED <<db, pc, run, last, clock, http, cmd, chunking, query, conn>>

\* generateEmbedding for texts[index] rejects (connection, status,
\* malformed body, dimension)
EmbeddingRejects(index) ==
  /\ batch.phase # "none"
  /\ index \in batch.inflight
  /\ batch' = WorkerThrows(batch, index)
  /\ UNCHANGED <<db, pc, run, last, clock, http, cmd, chunking, query, conn>>

\* A faulty variant of EmbeddingsRead: every chunk is given the first
\* vector.
EmbeddingsReadFirst(returned, n) ==
  [i \in 1..n |-> IF 1 \in DOMAIN returned THEN returned[1] ELSE Undefined]

\* embeddings[k] as the transaction reads it: undefined past the end
EmbeddingsRead(returned, n) ==
  [i \in 1..n |-> IF i \in DOMAIN returned THEN returned[i] ELSE Undefined]

\* the batch resolved: syncSource goes on with the returned array, commits
\* and returns (index.ts 150-240)
BatchResolved ==
  /\ pc = "embedding"
  /\ batch.phase = "resolved"
  /\ LET returned == ResultArray(batch.results)
         tx == storeTransaction(db, run.source, run.articles, run.allArticleChunks,
                                EmbeddingsRead(returned, Len(batch.texts)), clock, -1)
     IN /\ tx.ok
        /\ db' = tx.db
        /\ run' = [run EXCEPT !.embeddings = returned,
                              !.embedCalls = batch.nextIndex,
                              !.status = "ok",
                              !.result = [articlesProcessed |-> Len(run.allArticleChunks),
                                          articlesFetched |-> Len(run.articles),
                                          chunksCreated |-> Len(batch.texts)]]
  /\ pc' = "done"
  /\ UNCHANGED <<last, clock, http, batch, cmd, chunking, query, conn>>

\* the batch rejected: syncSource throws (index.ts 150-162)
BatchRejected ==
  /\ pc = "embedding"
  /\ batch.phase = "rejected"
  /\ run' = Thrown(run, "embed_failed")
  /\ pc' = "done"
  /\ UNCHANGED <<db, last, clock, http, batch, cmd, chunking, query, conn>>

EmbedNext ==
  \/ \E articles \in Listings : SyncFetched(articles)
  \/ BatchStart
  \/ \E index \in batch.inflight : EmbeddingResolves(index)
  \/ \E index \in batch.inflight : EmbeddingRejects(index)
  \/ BatchResolved
  \/ BatchRejected

EmbedSpec == EmbedInit /\ [][EmbedNext]_vars

(***************************************************************************)
(* C12.  Whatever the order in which the calls complete, the array a       *)
(* resolved generateEmbeddingsBatch returns has one vector per text, and   *)
(* position i holds the vector computed for texts[i].                      *)
(***************************************************************************)
C12_VectorsInInputOrder ==
  batch.phase = "resolved" =>
    LET returned == ResultArray(batch.results)
    IN /\ Len(returned) = Len(batch.texts)
       /\ \A i \in 1..Len(batch.texts) : returned[i] = Embedding(batch.texts[i])
       /\ (pc = "done" => run.embeddings = returned)

\* a batch of distinct texts resolved after calls completed out of order
C12_Witness ==
  /\ batch.phase = "resolved"
  /\ batch.outOfOrder
  /\ \E i, j \in 1..Len(batch.texts) : batch.texts[i] # batch.texts[j]
  /\ pc = "done"

(***************************************************************************)
(* C13.  At every moment of a batch, also after it has rejected, the       *)
(* calls started and not settled number at most the concurrency (5 from    *)
(* syncSource).                                                            *)
(***************************************************************************)
C13_AtMostCInFlight ==
  /\ Cardinality(batch.inflight) <= batch.concurrency
  /\ batch.phase # "none" => batch.concurrency = SyncConcurrency

\* five calls in flight while a text still waits for a worker
C13_Witness ==
  /\ Cardinality(batch.inflight) = SyncConcurrency
  /\ batch.nextIndex < Len(batch.texts)

(***************************************************************************)
(* C14.  If a single embedding call fails the batch rejects: the caller    *)
(* gets the error and no array, syncSource throws, and the store is the    *)
(* store as it was when the sync started (no chunk, no embedding of the    *)
(* batch is stored), also while the other calls of the batch go on.        *)
(***************************************************************************)
C14_BatchAtomic ==
  /\ batch.failed # {} => batch.phase = "rejected"
  /\ batch.phase = "rejected" =>
       /\ batch.failed # {}
       /\ run.embeddings = <<>>
       /\ db = run.pre
       /\ pc \in {"embedding", "done"}
       /\ pc = "done" => run.status = "embed_failed"

\* syncSource threw on a batch that had computed some vectors, over a
\* store that held chunks, and a call still completes afterwards
C14_Witness ==
  /\ pc = "done" /\ run.status = "embed_failed"
  /\ batch.completed > 0
  /\ batch.inflight # {}
  /\ db.chunks # {}

(***************************************************************************)
(* C35.  After the commit of a sync every stored chunk of a processed      *)
(* article has exactly one vector, the one computed from its own text:     *)
(* the chunk with index j of the entry i of allArticleChunks that was      *)
(* stored last for the article holds the k-th vector of the batch, k the   *)
(* position of that chunk in the flattened order, and the k-th text of     *)
(* the batch is the chunk's text, a text of the same article.  This for    *)
(* listings that hold an article twice and whatever the order in which     *)
(* the embedding calls complete.                                           *)
(***************************************************************************)
C35_ChunkHasOwnEmbedding ==
  Committed =>
    LET acs == run.allArticleChunks
        Offset(i) == SumSeq([m \in 1..(i - 1) |-> Len(acs[m].chunks)])
        LastOf(id) == CHOOSE i \in 1..Len(acs) :
                        /\ acs[i].articleId = id
                        /\ \A j \in (i + 1)..Len(acs) : acs[j].articleId # id
    IN \A c \in db.chunks :
         (c.source_id = run.source /\ c.article_id \in ProcessedIds) =>
           LET k == Offset(LastOf(c.article_id)) + c.chunk_index + 1
               vs == {v \in db.chunks_vec : v.rowid = c.id}
           IN /\ Cardinality(vs) = 1
              /\ \A v \in vs :
                   /\ v.embedding = Embedding(c.text)
                   /\ v.embedding = run.embeddings[k]
                   /\ batch.texts[k] = c.text
                   /\ v.embedding.of.title = c.article_id

\* a committed sync of a listing that holds one article twice, with
\* different numbers of chunks, whose embedding calls completed out of order
C35_Witness ==
  /\ Committed
  /\ batch.outOfOrder
  /\ Len(run.allArticleChunks) = 2
  /\ run.allArticleChunks[1].articleId = run.allArticleChunks[2].articleId
  /\ Len(run.allArticleChunks[1].chunks) = 1
  /\ Len(run.allArticleChunks[2].chunks) = 2

(***************************************************************************)
(* generateEmbeddingsBatch on its own, for batches of up to MaxTexts       *)
(* texts and the concurrencies below.                                      *)
(***************************************************************************)
MaxTexts == 4

Concurrencies == {1, 2, 3, SyncConcurrency}

BatchInit ==
  /\ db = EmptyDb
  /\ pc = "idle"
  /\ run = NoRun
  /\ last = NoLast
  /\ clock = 0
  /\ http = NoHttp
  /\ \E n \in 0..MaxTexts, concurrency \in Concurrencies :
       batch = generateEmbeddingsBatch([i \in 1..n |-> [title |-> i, pieces |-> <<>>]],
                                       concurrency)
  /\ cmd = NoCmd
  /\ chunking = NoChunking
  /\ query = NoQuery
  /\ conn = NoConn

BatchNext ==
  \/ \E index \in batch.inflight : EmbeddingResolves(index)
  \/ \E index \in batch.inflight : EmbeddingRejects(index)

BatchSpec == BatchInit /\ [][BatchNext]_vars

(***************************************************************************)
(* C36.  When a batch over N texts with concurrency C >= 1 has resolved,   *)
(* processor has been called exactly N times, once for each index 1..N,    *)
(* and onProgress exactly N times, with completed = 1, 2, ..., N in that   *)
(* order; and while a batch runs no index has been taken twice and the     *)
(* indices taken are the first nextIndex ones.                             *)
(***************************************************************************)
C36_EachIndexOnce ==
  LET n == Len(batch.texts)
  IN /\ batch.phase # "none" =>
          /\ \A i, j \in 1..Len(batch.calls) : batch.calls[i] = batch.calls[j] => i = j
          /\ {batch.calls[i] : i \in 1..Len(batch.calls)} = 1..batch.nextIndex
          /\ batch.progress = [i \in 1..batch.completed |-> i]
     /\ batch.phase = "resolved" =>
          /\ Len(batch.calls) = n
          /\ {batch.calls[i] : i \in 1..n} = 1..n
          /\ DOMAIN batch.results = 1..n
          /\ batch.progress = [i \in 1..n |-> i]

\* a batch of four texts run by two workers has resolved, the calls
\* having completed out of order
C36_Witness ==
  /\ batch.phase = "resolved"
  /\ Len(batch.texts) = 4
  /\ batch.concurrency = 2
  /\ batch.outOfOrder
  /\ batch.completed = 4

(***************************************************************************)
(* The fetcher (sync/zendesk.ts).  A response is the outcome of one        *)
(* fetch(url): `rejected' when fetch itself rejects (network failure),     *)
(* else a status, the Retry-After header (NULL when absent) and whether    *)
(* the body parses as JSON.                                                *)
(***************************************************************************)
DEFAULT_RETRY_OPTIONS == [maxRetries |-> 5, initialDelay |-> 1000, maxDelay |-> 60000]

Response(status, retryAfter, body) ==
  [rejected |-> FALSE, status |-> status, retryAfter |-> retryAfter, body |-> body]

NetworkFailure == [rejected |-> TRUE, status |-> 0, retryAfter |-> NULL, body |-> "none"]

Responses ==
  {Response(200, NULL, "json"), Response(200, NULL, "garbage"),
   Response(404, NULL, "json"),
   Response(429, NULL, "json"), Response(429, [seconds |-> 2], "json"),
   Response(429, [seconds |-> 0], "json"), Response(429, [seconds |-> 120], "json"),
   Response(500, NULL, "json"), Response(503, [seconds |-> 2], "json"),
   NetworkFailure}

\* response.ok
ResponseOk(o) == o.status >= 200 /\ o.status <= 299

Error(message, detail) == [message |-> message, detail |-> detail]

RECURSIVE Pow2(_)
Pow2(n) == IF n = 0 THEN 1 ELSE 2 * Pow2(n - 1)

\* A faulty variant of Backoff: the delay does not grow.
BackoffConstant(options, attempt) == [ms |-> options.initialDelay]

\* Math.min(delay * Math.pow(2, attempt), options.maxDelay)
Backoff(options, attempt) ==
  [ms |-> Min(options.initialDelay * Pow2(attempt), options.maxDelay)]

\* A faulty variant of RetryAfterWait: the header's wait is capped like the
\* backoff.
RetryAfterCapped(retryAfter) == [ms |-> Min(retryAfter.seconds * 1000, 60000)]

\* parseInt(retryAfter, 10) * 1000; the header holds the decimal digits of
\* `seconds'
RetryAfterWait(retryAfter) == [ms |-> retryAfter.seconds * 1000]

\* the catch block of fetchWithRetry at `attempt': give up with lastError
\* or sleep and go round again
RetryCatch(options, attempt, error) ==
  IF attempt >= options.maxRetries
    THEN [do |-> "throw", wait |-> NoWait, error |-> error]
    ELSE [do |-> "retry", wait |-> Backoff(options, attempt), error |-> NoError]

\* A faulty variant of Returnable: only a 2xx response is handed back.
ReturnableIfOk(o) == ResponseOk(o)

\* response.ok || response.status < 500
Returnable(o) == ResponseOk(o) \/ o.status < 500

\* One pass of the loop of fetchWithRetry, on the outcome `o' of its fetch
RetryPass(options, attempt, o) ==
  IF o.rejected
    THEN RetryCatch(options, attempt, Error("fetch failed", 0))
  ELSE IF o.status = 429
    THEN IF attempt < options.maxRetries
           THEN [do |-> "retry",
                 wait |-> IF o.retryAfter # NULL THEN RetryAfterWait(o.retryAfter)
                          ELSE Backoff(options, attempt),
                 error |-> NoError]
           ELSE RetryCatch(options, attempt, Error("Rate limit exceeded", 429))
  ELSE IF Returnable(o)
    THEN [do |-> "return", wait |-> NoWait, error |-> NoError]
  ELSE RetryCatch(options, attempt, Error("HTTP", o.status))

\* A faulty variant of NextAttempt: a 429 does not count.
NextAttemptUnless429(attempt, o) == IF o.status = 429 THEN attempt ELSE attempt + 1

\* attempt++ of the for loop
NextAttempt(attempt, o) == attempt + 1

\* fetchWithRetry(nextPage) is called: the first fetch is on its way
Request(f, url) ==
  [f EXCEPT !.state = "requesting", !.url = url, !.attempt = 0,
            !.requests = 1, !.cursors = Append(@, url)]

\* the paging loop ends; the locals of its fetchWithRetry are gone
Ends(f, state) == [f EXCEPT !.state = state, !.attempt = 0, !.requests = 0]

\* A faulty variant of Published: drafts are kept.
Unfiltered(articles) == articles

\* data.articles.filter(a => !a.draft)
RECURSIVE Published(_)
Published(articles) ==
  IF articles = <<>> THEN <<>>
  ELSE IF ~Head(articles).draft
         THEN <<Head(articles)>> \o Published(Tail(articles))
         ELSE Published(Tail(articles))

\* A faulty variant of ArticlesCatch: the articles collected so far are
\* returned.
ArticlesCatchReturns(f, error, sourceId) ==
  [Ends(f, "returned") EXCEPT !.failed = TRUE]

\* the catch block of fetchAllArticles: every value thrown in the loop is
\* an Error, and is rethrown under the name of the source
ArticlesCatch(f, error, sourceId) ==
  [Ends(f, "threw") EXCEPT
            !.failed = TRUE,
            !.error = [message |-> "Failed to fetch articles from",
                       name |-> sourceId, cause |-> error]]

\* fetchAllArticles from the settling of its fetchWithRetry to its next
\* await: `o' is the outcome of the fetch, `pages' the listing at the origin
fetchAllArticles(f, o, pages, sourceId) ==
  LET pass == RetryPass(DEFAULT_RETRY_OPTIONS, f.attempt, o)
      g == [f EXCEPT !.last = o, !.slept = pass.wait]
  IN IF pass.do = "retry"
       THEN [g EXCEPT !.attempt = NextAttempt(@, o), !.requests = @ + 1]
     ELSE IF pass.do = "throw"
       THEN ArticlesCatch(g, pass.error, sourceId)
     ELSE IF ~ResponseOk(o)
       THEN ArticlesCatch(g, Error("Failed to fetch articles from baseUrl: HTTP", o.status),
                          sourceId)
     ELSE IF o.body # "json"
       THEN ArticlesCatch(g, Error("SyntaxError", 0), sourceId)
     ELSE LET data == pages[f.url.cursor]
              h == [g EXCEPT !.acc = @ \o Published(data.items)]
          IN IF data.next_page # NULL
               THEN Request(h, data.next_page)
               ELSE Ends(h, "returned")

\* sectionMap.set(section.id, section.name) for every section of the page
SetAll(map, items) ==
  [k \in DOMAIN map \cup DOMAIN items |-> IF k \in DOMAIN items THEN items[k] ELSE map[k]]

\* fetchSections and fetchCategories, which differ in the listing they
\* page through: on a response that is not ok, and on anything thrown, the
\* map is returned as it stands
fetchSections(f, o, pages) ==
  LET pass == RetryPass(DEFAULT_RETRY_OPTIONS, f.attempt, o)
      g == [f EXCEPT !.last = o, !.slept = pass.wait]
  IN IF pass.do = "retry"
       THEN [g EXCEPT !.attempt = NextAttempt(@, o), !.requests = @ + 1]
     ELSE IF pass.do = "throw" \/ ~ResponseOk(o) \/ o.body # "json"
       THEN [Ends(g, "returned") EXCEPT !.failed = TRUE]
     ELSE LET data == pages[f.url.cursor]
              h == [g EXCEPT !.acc = SetAll(@, data.items)]
          IN IF data.next_page # NULL
               THEN Request(h, data.next_page)
               ELSE Ends(h, "returned")

fetchCategories(f, o, pages) == fetchSections(f, o, pages)

\* The pages of a listing: each carries the cursor of the next, the last
\* one null.  The first URL is cursor 1.
Paginate(pages) ==
  [i \in 1..Len(pages) |->
     [items |-> pages[i], next_page |-> IF i < Len(pages) THEN [cursor |-> i + 1] ELSE NULL]]

FirstPage == [cursor |-> 1]

(***************************************************************************)
(* One syncSource run with its fetches in detail.  It starts where         *)
(* syncSource of source "a" has called fetchAllArticles, over a store at   *)
(* rest and an origin that serves one of a few listings.                   *)
(***************************************************************************)
ZendeskArticle(id, t, draft) ==
  [id |-> id,
   title |-> OriginArticle(id, t).title,
   body |-> OriginArticle(id, t).body,
   updated_at |-> OriginArticle(id, t).updated_at,
   draft |-> draft]

\* Article listings of the origin: empty, one page, two pages, with drafts,
\* and with an article that two pages repeat
ArticlePagings ==
  {Paginate(<< <<>> >>),
   Paginate(<< <<ZendeskArticle(1, 1, FALSE)>> >>),
   Paginate(<< <<ZendeskArticle(1, 2, FALSE), ZendeskArticle(2, 2, TRUE)>> >>),
   Paginate(<< <<ZendeskArticle(2, 1, TRUE)>> >>),
   Paginate(<< <<ZendeskArticle(1, 1, FALSE)>>, <<ZendeskArticle(2, 2, FALSE)>> >>),
   Paginate(<< <<ZendeskArticle(2, 1, TRUE), ZendeskArticle(1, 2, FALSE)>>,
               <<ZendeskArticle(2, 2, FALSE)>> >>),
   Paginate(<< <<ZendeskArticle(1, 1, FALSE)>>, <<ZendeskArticle(1, 1, FALSE)>> >>),
   Paginate(<< <<ZendeskArticle(1, 2, FALSE)>>, <<ZendeskArticle(2, 2, TRUE)>> >>)}

SectionPages == Paginate(<< (10 :> "s10"), (11 :> "s11") >>)

CategoryPages == Paginate(<< (20 :> "c20"), (21 :> "c21") >>)

FetchInit ==
  /\ db \in StoresAtRest
  /\ pc = "fetching"
  /\ \E fullResync \in BOOLEAN :
       run = [NoRun EXCEPT !.source = "a", !.fullResync = fullResync,
                           !.pre = db, !.status = "running"]
  /\ last = NoLast
  /\ clock = 2
  /\ \E pages \in ArticlePagings :
       http = [NoHttp EXCEPT !.origin = [articles |-> pages, sections |-> SectionPages,
                                         categories |-> CategoryPages],
                             !.articles = Request(NoFetcher, FirstPage)]
  /\ batch = NoBatch
  /\ cmd = NoCmd
  /\ chunking = NoChunking
  /\ query = NoQuery
  /\ conn = NoConn

\* a fetch of fetchAllArticles settles; when fetchAllArticles returns,
\* syncSource calls fetchSections and fetchCategories (index.ts 47-60)
ArticlesResponse(o) ==
  /\ pc = "fetching"
  /\ http.articles.state = "requesting"
  /\ LET f == fetchAllArticles(http.articles, o, http.origin.articles, run.source)
     IN http' = IF f.state = "returned"
                  THEN [http EXCEPT !.articles = f,
                                    !.sections = Request(NoFetcher, FirstPage),
                                    !.categories = Request(NoFetcher, FirstPage)]
                  ELSE [http EXCEPT !.articles = f]
  /\ UNCHANGED <<db, pc, run, last, clock, batch, cmd, chunking, query, conn>>

\* fetchAllArticles threw: syncSource throws (index.ts 47)
ArticlesThrew ==
  /\ http.articles.state = "threw"
  /\ SyncFetchFail

\* a fetch of fetchSections settles
SectionsResponse(o) ==
  /\ pc = "fetching"
  /\ http.sections.state = "requesting"
  /\ http' = [http EXCEPT !.sections = fetchSections(@, o, http.origin.sections)]
  /\ UNCHANGED <<db, pc, run, last, clock, batch, cmd, chunking, query, conn>>

\* a fetch of fetchCategories settles
CategoriesResponse(o) ==
  /\ pc = "fetching"
  /\ http.categories.state = "requesting"
  /\ http' = [http EXCEPT !.categories = fetchCategories(@, o, http.origin.categories)]
  /\ UNCHANGED <<db, pc, run, last, clock, batch, cmd, chunking, query, conn>>

\* Promise.all([fetchSections, fetchCategories]) resolves: syncSource goes
\* on with the articles fetchAllArticles returned (index.ts 57-148)
MetadataFetched ==
  /\ http.articles.state = "returned"
  /\ http.sections.state = "returned"
  /\ http.categories.state = "returned"
  /\ SyncFetched(http.articles.acc)

FetchNext ==
  \/ \E o \in Responses : ArticlesResponse(o)
  \/ ArticlesThrew
  \/ \E o \in Responses : SectionsResponse(o)
  \/ \E o \in Responses : CategoriesResponse(o)
  \/ MetadataFetched
  \/ SyncStore

FetchSpec == FetchInit /\ [][FetchNext]_vars

(***************************************************************************)
(* Vocabulary of the fetch properties.                                     *)
(***************************************************************************)
Fetchers == {"articles", "sections", "categories"}

\* a 429, a 5xx or a network failure
Retryable(o) == o.rejected \/ o.status = 429 \/ o.status >= 500

\* a 4xx other than 429
ClientError(o) == ~o.rejected /\ o.status >= 400 /\ o.status <= 499 /\ o.status # 429

\* the error fetchWithRetry raises when its last attempt got `o'
LastError(o) ==
  IF o.rejected THEN Error("fetch failed", 0)
  ELSE IF o.status = 429 THEN Error("Rate limit exceeded", 429)
  ELSE Error("HTTP", o.status)

\* the non-draft articles of the first n pages, in page order
RECURSIVE NonDrafts(_, _)
NonDrafts(pages, n) ==
  IF n = 0 THEN <<>>
  ELSE NonDrafts(pages, n - 1) \o SelectSeq(pages[n].items, LAMBDA a : ~a.draft)

(***************************************************************************)
(* C15.  Every fetchWithRetry makes at most maxRetries + 1 = 6 requests    *)
(* for its URL, whatever mix of 429, 5xx and network failures answers      *)
(* them: each such answer before the sixth leads to one more request       *)
(* after a sleep, the sixth ends the call with the error of that last      *)
(* answer, and any other answer ends the requests for the URL at once.     *)
(***************************************************************************)
C15_BoundedAttempts ==
  [][\A k \in Fetchers :
       LET f == http[k]
           g == http'[k]
           o == g.last
       IN (f.state = "requesting" /\ g # f) =>
            /\ f.requests = f.attempt + 1
            /\ f.requests <= DEFAULT_RETRY_OPTIONS.maxRetries + 1
            /\ (Retryable(o) /\ f.requests <= DEFAULT_RETRY_OPTIONS.maxRetries) =>
                  /\ g.state = "requesting" /\ g.url = f.url
                  /\ g.requests = f.requests + 1
                  /\ g.slept # NoWait
            /\ (Retryable(o) /\ f.requests = DEFAULT_RETRY_OPTIONS.maxRetries + 1) =>
                  /\ g.state \in {"returned", "threw"}
                  /\ g.failed
                  /\ g.slept = NoWait
                  /\ k = "articles" => (g.state = "threw" /\ g.error.cause = LastError(o))
            /\ ~Retryable(o) => (g.state = "requesting" => (g.url # f.url /\ g.requests = 1))]_vars

\* fetchAllArticles gave up after the sixth request was answered by a 429
C15_Witness ==
  /\ http.articles.state = "threw"
  /\ http.articles.error.cause = Error("Rate limit exceeded", 429)

(***************************************************************************)
(* C16.  After a response with a 4xx status other than 429 no further      *)
(* request is made for the URL and no backoff sleep follows: the paging    *)
(* loop has ended, and fetchAllArticles has thrown, so that syncSource     *)
(* has neither a listing nor a write.                                      *)
(***************************************************************************)
C16_ClientErrorNotRetried ==
  \A k \in Fetchers :
    LET f == http[k]
    IN (f.last # NoResponse /\ ClientError(f.last)) =>
         /\ f.state \in {"returned", "threw"}
         /\ f.failed
         /\ f.slept = NoWait
         /\ k = "articles" =>
              /\ f.state = "threw"
              /\ f.error.cause = Error("Failed to fetch articles from baseUrl: HTTP", f.last.status)
              /\ run.articles = <<>>
              /\ db = run.pre

\* the second page of the articles was answered 404
C16_Witness ==
  /\ http.articles.state = "threw"
  /\ ClientError(http.articles.last)
  /\ Len(http.articles.cursors) = 2
  /\ pc = "done"

(***************************************************************************)
(* C17.  fetchAllArticles returns the non-draft articles of every page of  *)
(* the listing, or throws an error that names the source: when a page      *)
(* fails it returns nothing, syncSource throws with no listing, no diff    *)
(* and no write, and a sync that goes on past the fetch works on the       *)
(* whole listing.                                                          *)
(***************************************************************************)
C17_WholeListingOrError ==
  LET f == http.articles
      pages == http.origin.articles
  IN /\ f.state = "returned" =>
          /\ ~f.failed
          /\ f.acc = NonDrafts(pages, Len(pages))
     /\ f.failed =>
          /\ f.state = "threw"
          /\ f.error.name = run.source
          /\ pc \in {"fetching", "done"}
          /\ pc = "done" => run.status = "fetch_failed"
          /\ run.articles = <<>> /\ run.staleIds = {}
          /\ db = run.pre
     /\ (f.state # "idle" /\ pc \in {"embedding", "done"} /\ run.status # "fetch_failed") =>
          run.articles = NonDrafts(pages, Len(pages))

\* syncSource threw after the second page failed, the first page having
\* yielded articles, over a store that holds articles
C17_Witness ==
  /\ http.articles.state = "threw"
  /\ http.articles.acc # <<>>
  /\ pc = "done"
  /\ db.articles # {}

(***************************************************************************)
(* C18.  fetchSections and fetchCategories never throw, and when a request *)
(* of theirs fails, on whatever page, the map they return is empty.        *)
(* Violated: after a failure on the second page the map holds the          *)
(* entries of the first.                                                   *)
(***************************************************************************)
C18_MetadataEmptyOnFailure ==
  \A k \in {"sections", "categories"} :
    /\ http[k].state # "threw"
    /\ http[k].failed => (http[k].state = "returned" /\ http[k].acc = <<>>)

(***************************************************************************)
(* C19.  fetchAllArticles requests the pages one after another, following  *)
(* next_page from the first page until it is null: while page n is         *)
(* requested the articles held are the non-drafts of pages 1..n-1, and     *)
(* the list returned is the non-drafts of all pages in page order.  No     *)
(* draft is in the listing syncSource works on, among the articles it      *)
(* chunks, or among the rows it stores.                                    *)
(***************************************************************************)
C19_PagesInOrderNoDrafts ==
  LET f == http.articles
      pages == http.origin.articles
  IN /\ \A i \in 1..Len(f.cursors) : f.cursors[i] = [cursor |-> i]
     /\ f.state = "requesting" =>
          /\ f.url = [cursor |-> Len(f.cursors)]
          /\ f.acc = NonDrafts(pages, Len(f.cursors) - 1)
     /\ f.state = "returned" =>
          /\ Len(f.cursors) = Len(pages)
          /\ f.acc = NonDrafts(pages, Len(pages))
     /\ f.state # "idle" =>
          /\ \A i \in 1..Len(f.acc) : ~f.acc[i].draft
          /\ \A i \in 1..Len(run.articles) : ~run.articles[i].draft
          /\ \A i \in 1..Len(run.allArticleChunks) :
               \E n \in 1..Len(pages) : \E j \in 1..Len(pages[n].items) :
                 /\ ~pages[n].items[j].draft
                 /\ pages[n].items[j].id = run.allArticleChunks[i].articleId
                 /\ DateOf(pages[n].items[j].updated_at) = run.allArticleChunks[i].updatedAt
          /\ \A a \in db.articles :
               a.synced_at = toISOString(clock) =>
                 \E n \in 1..Len(pages) : \E j \in 1..Len(pages[n].items) :
                   /\ ~pages[n].items[j].draft
                   /\ pages[n].items[j].id = a.id
                   /\ DateOf(pages[n].items[j].updated_at) = DateOf(a.updated_at)

\* a committed sync of a two-page listing that holds a draft
C19_Witness ==
  /\ Committed
  /\ Len(http.origin.articles) = 2
  /\ \E n \in 1..2 : \E j \in 1..Len(http.origin.articles[n].items) :
       http.origin.articles[n].items[j].draft
  /\ Len(run.articles) = 2

(***************************************************************************)
(* The sync command (`kb-mcp sync [--source id] [--full]'): it upserts the *)
(* configured sources, selects the sources to sync and calls syncSource    *)
(* for each in turn, inside one try block whose catch is exitWithError.    *)
(* syncAllSources is the same loop without the catch.                      *)
(***************************************************************************)
\* config.sources of the configurations the command is run with
ConfigSources == {<<>>, <<"a">>, <<"a", "b">>}

\* args.source: "" when the option is not given
SourceArgs == {""} \cup SourceIds

\* ORDER BY name
SourcesByName == <<"a", "b">>

\* Stores the command starts over: empty, or both sources known and "a"
\* synced before
StoresBefore ==
  {EmptyDb,
   SyncedStore(upsertSource(upsertSource(EmptyDb, "a"), "b"), "a",
               <<OriginArticle(1, 1)>>, 0)}

\* for (const source of config.sources) upsertSource(db, source)
RECURSIVE UpsertAll(_, _)
UpsertAll(d, sources) ==
  IF sources = <<>> THEN d
  ELSE UpsertAll(upsertSource(d, Head(sources)), Tail(sources))

getSource(d, id) == {s \in d.sources : s.id = id}

\* SELECT * FROM sources WHERE enabled = 1 ORDER BY name
getEnabledSources(d) ==
  SelectSeq(SourcesByName, LAMBDA id : \E s \in getSource(d, id) : s.enabled)

\* What the store holds of one source
SourceState(d, id) ==
  [source |-> getSource(d, id),
   articles |-> {a \in d.articles : a.source_id = id},
   chunks |-> {c \in d.chunks : c.source_id = id},
   chunks_vec |-> {v \in d.chunks_vec : \E c \in d.chunks : c.source_id = id /\ c.id = v.rowid}]

CmdInit ==
  /\ db \in StoresBefore
  /\ pc = "idle"
  /\ run = NoRun
  /\ last = NoLast
  /\ clock = 0
  /\ http = NoHttp
  /\ batch = NoBatch
  /\ cmd = NoCmd
  /\ chunking = NoChunking
  /\ query = NoQuery
  /\ conn = NoConn

\* run({ args }) up to the loop (part_001 25-64)
CmdRun(config, source, full) ==
  /\ cmd.phase = "none"
  /\ pc = "idle"
  /\ LET d == UpsertAll(db, config)
     IN /\ db' = d
        /\ cmd' =
             IF source # "" /\ getSource(d, source) = {}
               THEN [NoCmd EXCEPT !.phase = "exited", !.exitCode = 1]
             ELSE IF source = "" /\ getEnabledSources(d) = <<>>
               THEN [NoCmd EXCEPT !.phase = "returned"]
             ELSE [NoCmd EXCEPT !.phase = "looping",
                                !.sources = IF source # "" THEN <<source>>
                                            ELSE getEnabledSources(d),
                                !.fullResync = full]
  /\ UNCHANGED <<pc, run, last, clock, http, batch, chunking, query, conn>>

\* the loop calls syncSource for its next source (part_001 66-88)
CmdSyncSource ==
  /\ cmd.phase = "looping"
  /\ Len(cmd.results) < Len(cmd.sources)
  /\ SyncBegin(cmd.sources[Len(cmd.results) + 1], cmd.fullResync)

\* syncSource returns its result; the loop goes on (part_001 90-104)
CmdSynced ==
  /\ cmd.phase = "looping"
  /\ pc = "done"
  /\ run.status \in {"ok", "noop"}
  /\ cmd' = [cmd EXCEPT !.results =
               Append(@, [source |-> run.source, result |-> run.result,
                          state |-> SourceState(db, run.source)])]
  /\ last' = [source |-> run.source, articles |-> run.articles]
  /\ run' = NoRun
  /\ pc' = "idle"
  /\ UNCHANGED <<db, clock, http, batch, chunking, query, conn>>

\* syncSource throws: the catch around the loop calls exitWithError, which
\* ends the process with code 1 (part_001 107-109, errors.ts 65-68)
CmdExit ==
  /\ cmd.phase = "looping"
  /\ pc = "done"
  /\ run.status \notin {"ok", "noop"}
  /\ cmd' = [cmd EXCEPT !.phase = "exited", !.exitCode = 1,
                        !.failed = run.source, !.pre = run.pre]
  /\ run' = NoRun
  /\ pc' = "idle"
  /\ UNCHANGED <<db, last, clock, http, batch, chunking, query, conn>>

\* the loop is through its sources (part_001 106)
CmdCompleted ==
  /\ cmd.phase = "looping"
  /\ pc = "idle"
  /\ Len(cmd.results) = Len(cmd.sources)
  /\ cmd' = [cmd EXCEPT !.phase = "returned"]
  /\ UNCHANGED <<db, pc, run, last, clock, http, batch, chunking, query, conn>>

CmdNext ==
  \/ \E config \in ConfigSources, source \in SourceArgs, full \in BOOLEAN :
       CmdRun(config, source, full)
  \/ CmdSyncSource
  \/ SyncFetchFail
  \/ \E articles \in Listings : SyncFetched(articles)
  \/ SyncEmbedFail
  \/ SyncStore
  \/ \E failAt \in 0..(Statements - 1) : SyncStoreFail(failAt)
  \/ CmdSynced
  \/ CmdExit
  \/ CmdCompleted

CmdSpec == CmdInit /\ [][CmdNext]_vars

(***************************************************************************)
(* The sync command among `sources enable' and `sources disable'           *)
(* commands, which run before it or after it.                              *)
(***************************************************************************)
\* `sources enable <id>', `sources disable <id>' (part_002 169-220)
SetSourceEnabled(id, enabled) ==
  /\ cmd.phase \in {"none", "returned", "exited"}
  /\ pc = "idle"
  /\ db' = setSourceEnabled(db, id, enabled)
  /\ UNCHANGED <<pc, run, last, clock, http, batch, cmd, chunking, query, conn>>

SourcesNext ==
  \/ CmdNext
  \/ \E id \in SourceIds, enabled \in BOOLEAN : SetSourceEnabled(id, enabled)

SourcesSpec == CmdInit /\ [][SourcesNext]_vars

(***************************************************************************)
(* C39.  The last_synced_at of a source that is in the store changes only  *)
(* in the step that commits a sync of that source, which sets it to the    *)
(* time of the commit: the upserts that start a sync command,              *)
(* setSourceEnabled, a sync that fails (at the fetch, at the embedding or  *)
(* in its transaction), a sync that finds nothing to do and the syncs of   *)
(* the other sources leave it as it is; and every sync that commits sets   *)
(* it.                                                                     *)
(***************************************************************************)
C39_LastSyncedOnlyByCommit ==
  [][LET commits == pc = "embedding" /\ pc' = "done" /\ run'.status = "ok"
         Same(s, t) == s.last_synced_at = t.last_synced_at
     IN /\ \A s \in db.sources : \A t \in db'.sources :
             (s.id = t.id /\ ~Same(s, t)) => (commits /\ run.source = s.id)
        /\ commits =>
             \E t \in db'.sources :
               /\ t.id = run.source
               /\ t.last_synced_at = toISOString(clock)
               /\ \A s \in db.sources : s.id = t.id => ~Same(s, t)
        /\ (pc' = "done" /\ pc # "done" /\ run'.status # "ok") =>
             \A s \in db.sources : \A t \in db'.sources : s.id = t.id => Same(s, t)]_vars

\* the command has synced "a", which had been synced before, and has left
\* "b", which is disabled and was never synced, alone
C39_Witness ==
  /\ cmd.phase = "returned"
  /\ \E i \in 1..Len(cmd.results) :
       cmd.results[i].source = "a" /\ cmd.results[i].result.articlesProcessed > 0
  /\ \E s \in db.sources : s.id = "a" /\ s.last_synced_at = toISOString(1)
  /\ \E s \in db.sources : s.id = "b" /\ ~s.enabled /\ s.last_synced_at = NULL

(***************************************************************************)
(* C20.  In a run over several sources, a failure while one source is      *)
(* synced aborts only that source: the store is as it was before the       *)
(* failed sync, the sources synced earlier in the run keep the state they  *)
(* had when their sync returned, and every other source of the run has     *)
(* been synced when the command ends.                                      *)
(* Violated: the command ends at the first failure and the sources after   *)
(* the failed one are never synced.                                        *)
(***************************************************************************)
C20_FailureIsolated ==
  (cmd.phase \in {"exited", "returned"} /\ cmd.failed # "") =>
    /\ db = cmd.pre
    /\ \A j \in 1..Len(cmd.results) :
         SourceState(db, cmd.results[j].source) = cmd.results[j].state
    /\ \A i \in 1..Len(cmd.sources) :
         cmd.sources[i] # cmd.failed =>
           \E j \in 1..Len(cmd.results) : cmd.results[j].source = cmd.sources[i]

(***************************************************************************)
(* C30.  When a request of fetchWithRetry fails with a status or error     *)
(* that is retried and no Retry-After header comes with it, the sleep      *)
(* before the retry after failed attempt k is 1000, 2000, 4000, 8000,      *)
(* 16000 ms for k = 0..4: the base delay doubled k times, at most 60000    *)
(* ms; after the failure of the final attempt (k = 5) there is no sleep.   *)
(***************************************************************************)
C30_ExponentialBackoff ==
  [][\A k \in Fetchers :
       LET f == http[k]
           g == http'[k]
           o == g.last
           waits == <<1000, 2000, 4000, 8000, 16000>>
       IN (f.state = "requesting" /\ g # f /\ Retryable(o) /\ o.retryAfter = NULL) =>
            IF f.attempt < 5
              THEN /\ g.slept = [ms |-> waits[f.attempt + 1]]
                   /\ g.slept.ms <= 60000
                   /\ g.state = "requesting" /\ g.attempt = f.attempt + 1
                   /\ (f.attempt > 0 /\ f.last.retryAfter = NULL) =>
                        g.slept.ms = 2 * f.slept.ms
              ELSE /\ g.slept = NoWait
                   /\ g.state # "requesting"]_vars

\* the sixth request for a page is on its way after a sleep of 16 s
C30_Witness ==
  /\ http.articles.state = "requesting"
  /\ http.articles.attempt = 5
  /\ http.articles.slept = [ms |-> 16000]
  /\ http.articles.last.retryAfter = NULL

(***************************************************************************)
(* C31.  After a 429 response that carries a Retry-After header of s       *)
(* seconds and is not the answer to the final attempt, the sleep before    *)
(* the next request is s seconds, whatever s is (0, or more than the       *)
(* 60 s at which the backoff is capped), and not the backoff value.  After *)
(* a 5xx response or a network failure the sleep is the backoff value      *)
(* 1000 * 2^k ms of the failed attempt k, also when the response carries   *)
(* a Retry-After header.                                                   *)
(***************************************************************************)
C31_RetryAfterHonoured ==
  [][\A k \in Fetchers :
       LET f == http[k]
           g == http'[k]
           o == g.last
       IN (f.state = "requesting" /\ g # f /\ f.attempt < 5) =>
            /\ (~o.rejected /\ o.status = 429 /\ o.retryAfter # NULL) =>
                  /\ g.slept = [ms |-> o.retryAfter.seconds * 1000]
                  /\ g.state = "requesting" /\ g.attempt = f.attempt + 1
            /\ (o.rejected \/ o.status >= 500) =>
                  /\ g.slept = [ms |-> 1000 * Pow2(f.attempt)]
                  /\ g.state = "requesting" /\ g.attempt = f.attempt + 1]_vars

\* a request is on its way after a sleep of 120 s that a 429 asked for, and
\* another after the backoff sleep that followed a 503 with a header
C31_Witness ==
  /\ http.categories.state = "requesting"
  /\ http.categories.last = Response(429, [seconds |-> 120], "json")
  /\ http.categories.slept = [ms |-> 120000]
  /\ http.categories.attempt = 2
  /\ http.sections.state = "requesting"
  /\ http.sections.last = Response(503, [seconds |-> 2], "json")
  /\ http.sections.slept = [ms |-> 4000]

(***************************************************************************)
(* The fetches of a sync against an origin that may stay silent.  The      *)
(* steps of the program itself (the continuations of fetchAllArticles and  *)
(* of Promise.all, the commit) happen once they can; whether and when a    *)
(* fetch(url) settles is the remote side's choice: fetchWithRetry passes   *)
(* no signal and sets no timer around its fetch (zendesk.ts 65), and no    *)
(* more does generateEmbedding (embeddings.ts 54-63).                      *)
(***************************************************************************)
SilentSpec ==
  /\ FetchInit
  /\ [][FetchNext]_vars
  /\ WF_vars(ArticlesThrew)
  /\ WF_vars(MetadataFetched)
  /\ WF_vars(SyncStore)

(***************************************************************************)
(* C32.  Every attempt bounds its wait: a fetchWithRetry that awaits the   *)
(* response to a request eventually returns or throws, and so syncSource   *)
(* eventually ends, also when the origin sends nothing.                    *)
(* Violated: the request that is never answered is awaited for ever; no    *)
(* step of the program ends the attempt.                                   *)
(***************************************************************************)
C32_AttemptsEnd ==
  /\ (http.articles.state = "requesting") ~> (http.articles.state # "requesting")
  /\ <>(pc = "done")

(***************************************************************************)
(* C29.  Once one embedding call of a batch has failed, no further         *)
(* embedding call is started for the batch (nextIndex stays) and no        *)
(* further progress callback is delivered (completed stays).               *)
(* Violated: the workers whose calls are still in flight go on with their  *)
(* loops after Promise.all has rejected.                                   *)
(***************************************************************************)
C29_FailFast ==
  [][batch.failed # {} =>
       /\ batch'.nextIndex = batch.nextIndex
       /\ batch'.completed = batch.completed]_vars

(***************************************************************************)
(* chunkText on its own: it is called with a text, a title and             *)
(* config.sync (chunkSize a positive integer, chunkOverlap a non-negative  *)
(* one, schema.ts 14-17), and returns its chunks.                          *)
(***************************************************************************)
\* sentences of the texts below
MaxSentences == 4

\* The words of a part: "Ab.", "A bcd ef.", "Abcdefg hijklmn opqrstu vw.",
\* and none (the part between two delimiters that follow one another, or
\* after a last delimiter)
SentenceWords == {<<3>>, <<1, 3, 3>>, <<7, 7, 7, 3>>, <<>>}

\* A text of parts that end in one white-space character
TextOf(words) ==
  [i \in 1..Len(words) |-> Sentence(words[i], IF i < Len(words) THEN 1 ELSE 0)]

Texts == {TextOf(words) : words \in UNION {[1..n -> SentenceWords] : n \in 0..MaxSentences}}

TitleLengths == {4, 12}

\* config.sync of the configurations chunkText is run with
SyncConfigs ==
  {[chunkSize |-> size, chunkOverlap |-> overlap] : size \in {4, 6, 8}, overlap \in {0, 2, 8}}

ChunkInit ==
  /\ db = EmptyDb
  /\ pc = "idle"
  /\ run = NoRun
  /\ last = NoLast
  /\ clock = 0
  /\ http = NoHttp
  /\ batch = NoBatch
  /\ cmd = NoCmd
  /\ \E text \in Texts, titleLength \in TitleLengths, config \in SyncConfigs :
       chunking = [NoChunking EXCEPT !.phase = "called", !.text = text,
                                     !.titleLength = titleLength,
                                     !.targetSize = config.chunkSize,
                                     !.overlap = config.chunkOverlap]
  /\ query = NoQuery
  /\ conn = NoConn

\* chunkText returns
ChunkText ==
  /\ chunking.phase = "called"
  /\ chunking' = [chunking EXCEPT !.phase = "returned",
                    !.chunks = chunkText(chunking.text, 0, chunking.titleLength,
                                         chunking.targetSize, chunking.overlap)]
  /\ UNCHANGED <<db, pc, run, last, clock, http, batch, cmd, query, conn>>

ChunkNext == ChunkText

ChunkSpec == ChunkInit /\ [][ChunkNext]_vars

\* the chunk was emitted by the word loop of the oversized-sentence path
ByWords(chunk) ==
  Len(chunk.text.pieces) = 1 /\ "joined" \in DOMAIN chunk.text.pieces[1]

SentenceTokens(sentence) == estimateTokenCount(SentenceLength(sentence))

(***************************************************************************)
(* C27.  For every chunkSize and chunkOverlap the configuration allows     *)
(* and every text that chunkText splits, a chunk that does not come from   *)
(* the word loop of the oversized-sentence path has a token estimate that  *)
(* exceeds chunkSize by at most the token estimate of one sentence of the  *)
(* text.                                                                   *)
(* Violated: the sentences kept as overlap are not counted against the     *)
(* target, so a chunk grows past it by several sentences.                  *)
(***************************************************************************)
C27_ChunkSizeBound ==
  (chunking.phase = "returned" /\ Len(chunking.chunks) > 1) =>
    \A i \in 1..Len(chunking.chunks) :
      LET chunk == chunking.chunks[i]
      IN ~ByWords(chunk) =>
           \/ chunk.tokenCount <= chunking.targetSize
           \/ \E j \in 1..Len(chunking.text) :
                chunk.tokenCount - chunking.targetSize <= SentenceTokens(chunking.text[j])

(***************************************************************************)
(* C28.  When chunkText returns several chunks, every chunk but the last   *)
(* shares a non-empty overlap with the next: for some n >= 1 the last n    *)
(* sentences of chunk i are the first n sentences of chunk i+1.            *)
(* Violated: the overlap is empty when the last sentence of chunk i has    *)
(* more tokens than chunkOverlap, and around the chunks of the             *)
(* oversized-sentence path.                                                *)
(***************************************************************************)
C28_ChunksOverlap ==
  chunking.phase = "returned" =>
    \A i \in 1..(Len(chunking.chunks) - 1) :
      LET this == chunking.chunks[i].text.pieces
          next == chunking.chunks[i + 1].text.pieces
      IN \E n \in 1..Len(this) :
           /\ n <= Len(next)
           /\ SubSeq(this, Len(this) - n + 1, Len(this)) = SubSeq(next, 1, n)

(***************************************************************************)
(* C33.  A sentence whose token estimate exceeds the effective budget      *)
(* (targetSize minus the title tokens) and which would start an empty      *)
(* chunk is split at word boundaries: no chunk of the sentence loop        *)
(* starts with such a sentence, also after a chunk closed with an empty    *)
(* overlap seed, and the words of every chunk of the word loop are within  *)
(* the budget.                                                             *)
(* Violated: the oversized test is made before the current chunk is        *)
(* closed, so an oversized sentence that closes a chunk and finds the      *)
(* seed empty is kept whole; and a word whose own estimate exceeds the     *)
(* budget is a chunk over budget.                                          *)
(***************************************************************************)
C33_OversizedSplitWithinBudget ==
  (chunking.phase = "returned" /\ \E p \in 1..Len(chunking.text) : chunking.text[p].words # <<>>) =>
    LET titleTokens == estimateTokenCount(TitlePrefixLength(chunking.titleLength))
        effectiveTargetSize == chunking.targetSize - titleTokens
    IN \A i \in 1..Len(chunking.chunks) :
         LET chunk == chunking.chunks[i]
             seed == OverlapSentences(chunking.chunks[i - 1].text.pieces,
                       Len(chunking.chunks[i - 1].text.pieces),
                       [sentences |-> <<>>, tokens |-> 0], chunking.overlap)
             startedEmpty == i = 1 \/ ByWords(chunking.chunks[i - 1])
                               \/ seed.sentences = <<>>
         IN IF ByWords(chunk)
              THEN chunk.tokenCount - titleTokens <= effectiveTargetSize
              ELSE startedEmpty =>
                     SentenceTokens(chunk.text.pieces[1]) <= effectiveTargetSize

\* The chunks, read as sequences of words, are windows of `words': the
\* first starts at `from'..`upto', each next one starts inside the one
\* before or right after it, and the last ends with `words'.
RECURSIVE Windows(_, _, _, _)
Windows(chunkWords, words, from, upto) ==
  IF chunkWords = <<>> THEN upto = Len(words)
  ELSE LET w == Head(chunkWords)
       IN \E start \in from..upto :
            /\ start + Len(w) <= Len(words)
            /\ start + Len(w) >= upto
            /\ SubSeq(words, start + 1, start + Len(w)) = w
            /\ Windows(Tail(chunkWords), words, start, start + Len(w))

\* the concatenation of a sequence of sequences
RECURSIVE Flatten(_)
Flatten(seqs) == IF seqs = <<>> THEN <<>> ELSE Head(seqs) \o Flatten(Tail(seqs))

(***************************************************************************)
(* C40.  chunkText loses nothing and keeps the order.  Read as words (a    *)
(* part that ends in white space ends in an empty word, as split(/\s+/)    *)
(* has it), the chunks of a text with content are windows of the text:     *)
(* the first starts where the text starts, each next one starts inside     *)
(* the one before or right after it and not before it, each holds the      *)
(* words of the text from its start on, in their order, and the last ends  *)
(* where the text ends.  So every sentence and every word is in a chunk,   *)
(* the chunks are in text order and the sentences of a chunk in theirs.    *)
(* A text without content gives one chunk, of index 0, with the title      *)
(* prefix alone.                                                           *)
(***************************************************************************)
C40_NoContentLost ==
  chunking.phase = "returned" =>
    LET content == SelectSeq(chunking.text, LAMBDA part : part.words # <<>>)
        WordsOfPiece(piece) ==
          IF "joined" \in DOMAIN piece THEN piece.words ELSE SplitWords(piece)
        WordsOfChunk(chunk) ==
          Flatten([i \in 1..Len(chunk.text.pieces) |-> WordsOfPiece(chunk.text.pieces[i])])
        words == Flatten([i \in 1..Len(content) |-> SplitWords(content[i])])
        chunkWords == [i \in 1..Len(chunking.chunks) |-> WordsOfChunk(chunking.chunks[i])]
    IN IF content = <<>>
         THEN /\ Len(chunking.chunks) = 1
              /\ chunking.chunks[1].index = 0
              /\ chunking.chunks[1].text.pieces = <<>>
         ELSE /\ Windows(chunkWords, words, 0, 0)
              /\ \A i \in 1..Len(chunkWords) : chunkWords[i] # <<>>
              /\ \A i \in 1..Len(content) :
                   \/ \E c \in 1..Len(chunking.chunks) :
                        \E p \in 1..Len(chunking.chunks[c].text.pieces) :
                          chunking.chunks[c].text.pieces[p] = content[i]
                   \/ \E c \in 1..Len(chunkWords) : \E e \in c..Len(chunkWords) :
                        /\ \A b \in c..e : ByWords(chunking.chunks[b])
                        /\ Flatten(SubSeq(chunkWords, c, e)) = SplitWords(content[i])

\* a text of four parts, one of them without a word, was cut into more
\* than two chunks, the first of them by the word loop
C40_Witness ==
  /\ chunking.phase = "returned"
  /\ Len(chunking.text) = 4
  /\ \E p \in 1..4 : chunking.text[p].words = <<>>
  /\ Len(chunking.chunks) > 2
  /\ ByWords(chunking.chunks[1])
  /\ ~ByWords(chunking.chunks[Len(chunking.chunks)])

(***************************************************************************)
(* The storage connection (src/db/index.ts): the module variable           *)
(* dbInstance, getDatabase split at its one await, and closeDatabase.      *)
(***************************************************************************)
\* connections opened in one behaviour
MaxConnections == 3

ConnInit ==
  /\ db = EmptyDb
  /\ pc = "idle"
  /\ run = NoRun
  /\ last = NoLast
  /\ clock = 0
  /\ http = NoHttp
  /\ batch = NoBatch
  /\ cmd = NoCmd
  /\ chunking = NoChunking
  /\ query = NoQuery
  /\ conn = NoConn

\* getDatabase() is called: it returns dbInstance when set, else it
\* suspends at await ensureDirectories() (index.ts 25-30)
GetDatabase(c) ==
  /\ conn.calls[c].state = "idle"
  /\ conn' = IF conn.dbInstance # NULL
               THEN [conn EXCEPT !.calls[c] = [state |-> "returned", handle |-> conn.dbInstance.handle]]
               ELSE [conn EXCEPT !.calls[c].state = "awaiting"]
  /\ UNCHANGED <<db, pc, run, last, clock, http, batch, cmd, chunking, query>>

\* ensureDirectories() rejects: getDatabase throws (index.ts 30)
GetDatabaseNoDirectories(c) ==
  /\ conn.calls[c].state = "awaiting"
  /\ conn' = [conn EXCEPT !.calls[c].state = "threw"]
  /\ UNCHANGED <<db, pc, run, last, clock, http, batch, cmd, chunking, query>>

\* ensureDirectories() resolves: the call opens a connection, assigns it
\* to dbInstance, loads the extension, creates the schema and returns
\* dbInstance (index.ts 31-52)
GetDatabaseOpens(c) ==
  /\ conn.calls[c].state = "awaiting"
  /\ conn.opened < MaxConnections
  /\ LET handle == conn.opened + 1
     IN conn' = [conn EXCEPT !.dbInstance = [handle |-> handle],
                             !.opened = handle,
                             !.open = @ \cup {handle},
                             !.calls[c] = [state |-> "returned", handle |-> handle]]
  /\ UNCHANGED <<db, pc, run, last, clock, http, batch, cmd, chunking, query>>

\* as GetDatabaseOpens, but loading the extension or creating the schema
\* throws: the catch closes dbInstance, clears it and rethrows
\* (index.ts 31-71)
GetDatabaseFails(c) ==
  /\ conn.calls[c].state = "awaiting"
  /\ conn.opened < MaxConnections
  /\ conn' = [conn EXCEPT !.dbInstance = NULL,
                          !.opened = @ + 1,
                          !.calls[c].state = "threw"]
  /\ UNCHANGED <<db, pc, run, last, clock, http, batch, cmd, chunking, query>>

\* closeDatabase() (index.ts 77-82)
closeDatabase ==
  /\ conn.dbInstance # NULL
  /\ conn' = [conn EXCEPT !.open = @ \ {conn.dbInstance.handle},
                          !.dbInstance = NULL]
  /\ UNCHANGED <<db, pc, run, last, clock, http, batch, cmd, chunking, query>>

\* the caller is done with the outcome of its call and may call again
CallerGoesOn(c) ==
  /\ conn.calls[c].state \in {"returned", "threw"}
  /\ conn' = [conn EXCEPT !.calls[c] = NoCall]
  /\ UNCHANGED <<db, pc, run, last, clock, http, batch, cmd, chunking, query>>

ConnNext ==
  \/ \E c \in Callers : GetDatabase(c)
  \/ \E c \in Callers : GetDatabaseNoDirectories(c)
  \/ \E c \in Callers : GetDatabaseOpens(c)
  \/ \E c \in Callers : GetDatabaseFails(c)
  \/ closeDatabase
  \/ \E c \in Callers : CallerGoesOn(c)

ConnSpec == ConnInit /\ [][ConnNext]_vars

(***************************************************************************)
(* C26.  The connection is a singleton: at any time at most one            *)
(* connection is open, every getDatabase call that has returned a handle   *)
(* still open has returned the one held in dbInstance, and a connection    *)
(* is opened only while dbInstance holds none of an earlier call.          *)
(* Violated: two calls that both pass the dbInstance test before either    *)
(* resumes from its await each open a connection.                          *)
(***************************************************************************)
C26_SingleConnection ==
  /\ Cardinality(conn.open) <= 1
  /\ \A c \in Callers :
       (conn.calls[c].state = "returned" /\ conn.calls[c].handle \in conn.open) =>
          conn.dbInstance = [handle |-> conn.calls[c].handle]

(***************************************************************************)
(* Search (src/search/index.ts, searchSimilarChunks of src/db/chunks.ts).  *)
(* A distance n stands for n/4 and a relevance m for m/8, so that          *)
(* 1 - d/2 is (8 - n)/8.  An optional argument is [given |-> FALSE] or     *)
(* carries its value.                                                      *)
(***************************************************************************)
Given(value) == [given |-> TRUE, value |-> value]

Max(a, b) == IF a > b THEN a ELSE b

\* Math.min(options.limit || 5, 20): undefined and 0 are falsy
EffectiveLimit(limitArg) ==
  Min(IF ~limitArg.given \/ limitArg.value = 0 THEN 5 ELSE limitArg.value, 20)

\* The distance the index computes between the query vector and a stored
\* one: a function of the two texts, here one with ties and with values
\* beyond 2
VecDistance(queryEmbedding, embedding) ==
  LET pieces == embedding.of.pieces
      size == IF pieces = <<>> THEN 0 ELSE SumSeq(pieces[1].words)
  IN ((queryEmbedding.of + size + Len(pieces) + embedding.of.title) % 6) * 2

\* WHERE cv.embedding MATCH ? AND k = ?: the sets of k rows of chunks_vec
\* nearest to the query (all rows when there are fewer); rows at equal
\* distance are chosen among arbitrarily
Knn(d, queryEmbedding, k) ==
  LET size == Min(k, Cardinality(d.chunks_vec))
  IN {cand \in SUBSET d.chunks_vec :
        /\ Cardinality(cand) = size
        /\ \A v \in cand : \A w \in d.chunks_vec \ cand :
             VecDistance(queryEmbedding, v.embedding) <= VecDistance(queryEmbedding, w.embedding)}

\* A faulty variant of SourceFilter: every source passes.
NoSourceFilter(sourcesArg, sourceId) == TRUE

\* if (sourceIds && sourceIds.length > 0) ... AND c.source_id IN (...)
SourceFilter(sourcesArg, sourceId) ==
  (sourcesArg.given /\ sourcesArg.value # {}) => sourceId \in sourcesArg.value

\* The url column of an article row: it is written with the row and read
\* with it, and is kept here as the key of the row it belongs to
UrlOf(a) == [article |-> a.id, source |-> a.source_id]

\* FROM chunks_vec cv INNER JOIN chunks c ON cv.rowid = c.id
\* INNER JOIN articles a ON c.article_id = a.id AND c.source_id = a.source_id
Joined(d, cand, queryEmbedding, sourcesArg) ==
  {[chunkId |-> v.rowid, articleId |-> c.article_id, sourceId |-> c.source_id,
    title |-> a.title, url |-> UrlOf(a), text |-> c.text,
    distance |-> VecDistance(queryEmbedding, v.embedding)] :
     <<v, c, a>> \in {t \in cand \X d.chunks \X d.articles :
                        /\ t[1].rowid = t[2].id
                        /\ t[2].article_id = t[3].id /\ t[2].source_id = t[3].source_id
                        /\ SourceFilter(sourcesArg, t[2].source_id)}}

\* ORDER BY cv.distance: the orders of the rows by distance
RECURSIVE OrderedByDistance(_)
OrderedByDistance(rows) ==
  IF rows = {} THEN {<<>>}
  ELSE UNION {{<<r>> \o rest : rest \in OrderedByDistance(rows \ {r})} :
                r \in {x \in rows : \A y \in rows : x.distance <= y.distance}}

\* searchSimilarChunks(db, embedding, limit, sourceIds): the row lists the
\* statement can return
searchSimilarChunks(d, queryEmbedding, limit, sourcesArg) ==
  UNION {OrderedByDistance(Joined(d, cand, queryEmbedding, sourcesArg)) :
           cand \in Knn(d, queryEmbedding, limit)}

\* A faulty variant of Relevance: no clamp at zero.
RelevanceUnclamped(distance) == 8 - distance

\* Math.max(0, 1 - (result.distance / 2))
Relevance(distance) == Max(0, 8 - distance)

formatSearchResult(result) ==
  [title |-> result.title, url |-> result.url, excerpt |-> result.text,
   sourceId |-> result.sourceId, relevance |-> Relevance(result.distance)]

\* A faulty variant of EmbeddingFailed: the search answers with an empty
\* list.
EmbeddingFailedReturnsNothing(q) == [q EXCEPT !.phase = "returned"]

\* generateEmbedding rejects: search rejects with its error
EmbeddingFailed(q) ==
  [q EXCEPT !.phase = "threw", !.error = Error("generateEmbedding", 0)]

\* The free-text queries, the limit and sources arguments of the searches
Queries == {0, 1, 2}
LimitArgs == {NotGiven, Given(-1), Given(0), Given(1), Given(3), Given(20), Given(25)}
SourcesArgs == {NotGiven, Given({}), Given({"a"}), Given({"b"}), Given({"a", "b"})}

\* Stores a search runs over: no article; source "a" synced; both sources
\* synced, article 1 in each; the latter after `sources remove a'
SearchStores ==
  LET none == upsertSource(upsertSource(EmptyDb, "a"), "b")
      one == SyncedStore(none, "a", <<OriginArticle(1, 1)>>, 0)
      both == SyncedStore(one, "b", <<OriginArticle(1, 2), OriginArticle(2, 2)>>, 0)
  IN {none, one, both, deleteSource(both, "a")}

SearchInit ==
  /\ db \in SearchStores
  /\ pc = "idle"
  /\ run = NoRun
  /\ last = NoLast
  /\ clock = 1
  /\ http = NoHttp
  /\ batch = NoBatch
  /\ cmd = NoCmd
  /\ chunking = NoChunking
  /\ query = NoQuery
  /\ conn = NoConn

\* search(db, config, query, { sources, limit }) is called: it computes
\* its limit and awaits generateEmbedding (index.ts 17-29)
Search(text, limitArg, sourcesArg) ==
  /\ query.phase = "none"
  /\ query' = [NoQuery EXCEPT !.phase = "embedding", !.text = text,
                              !.limitArg = limitArg, !.sourcesArg = sourcesArg,
                              !.limit = EffectiveLimit(limitArg)]
  /\ UNCHANGED <<db, pc, run, last, clock, http, batch, cmd, chunking, conn>>

\* generateEmbedding rejects (index.ts 29)
SearchEmbeddingRejects ==
  /\ query.phase = "embedding"
  /\ query' = EmbeddingFailed(query)
  /\ UNCHANGED <<db, pc, run, last, clock, http, batch, cmd, chunking, conn>>

\* generateEmbedding resolves; searchSimilarChunks runs its statement and
\* search returns the formatted rows (index.ts 29-40)
SearchReturns ==
  /\ query.phase = "embedding"
  /\ query.limit >= 0
  /\ \E rows \in searchSimilarChunks(db, Embedding(query.text), query.limit, query.sourcesArg) :
       query' = [query EXCEPT !.phase = "returned",
                              !.asked = Given(query.limit),
                              !.queries = @ + 1,
                              !.seen = db,
                              !.rows = rows,
                              !.results = [i \in 1..Len(rows) |-> formatSearchResult(rows[i])]]
  /\ UNCHANGED <<db, pc, run, last, clock, http, batch, cmd, chunking, conn>>

\* generateEmbedding resolves and the statement throws: always when k is
\* negative, which the index rejects, and whenever the database fails
\* (index.ts 29-37)
SearchQueryThrows ==
  /\ query.phase = "embedding"
  /\ query' = [query EXCEPT !.phase = "threw",
                            !.asked = Given(query.limit),
                            !.queries = @ + 1,
                            !.seen = db,
                            !.error = Error("SqliteError", 0)]
  /\ UNCHANGED <<db, pc, run, last, clock, http, batch, cmd, chunking, conn>>

\* the caller has the outcome; the next search can be made
SearchDone ==
  /\ query.phase \in {"returned", "threw"}
  /\ query' = NoQuery
  /\ UNCHANGED <<db, pc, run, last, clock, http, batch, cmd, chunking, conn>>

SearchNext ==
  \/ \E text \in Queries, limitArg \in LimitArgs, sourcesArg \in SourcesArgs :
       Search(text, limitArg, sourcesArg)
  \/ SearchEmbeddingRejects
  \/ SearchReturns
  \/ SearchQueryThrows
  \/ SearchDone

SearchSpec == SearchInit /\ [][SearchNext]_vars

(***************************************************************************)
(* C21.  search uses the limit 5 when none is given and otherwise the      *)
(* requested limit capped at 20; the k asked of the index and the number   *)
(* of results returned exceed neither 20 nor that limit.                   *)
(* Violated: a requested limit of 0 is replaced by 5.                      *)
(***************************************************************************)
C21_LimitDefaultAndCap ==
  query.phase # "none" =>
    LET effective == IF query.limitArg.given THEN Min(query.limitArg.value, 20) ELSE 5
    IN /\ query.limit = effective
       /\ query.asked.given => (query.asked.value <= 20 /\ query.asked.value <= effective)
       /\ Len(query.results) <= 20
       /\ Len(query.results) <= Max(effective, 0)

(***************************************************************************)
(* C22.  For a result at distance d the relevance is max(0, 1 - d/2): it   *)
(* lies between 0 and 1, is exactly 1 at distance 0, is 0 from distance 2  *)
(* on, and of two results the one farther away never has the higher       *)
(* relevance.  (Distances in quarters, relevances in eighths.)             *)
(***************************************************************************)
C22_RelevanceRange ==
  query.phase = "returned" =>
    /\ Len(query.results) = Len(query.rows)
    /\ \A i \in 1..Len(query.rows) :
         LET d == query.rows[i].distance
             r == query.results[i].relevance
         IN /\ 0 <= r /\ r <= 8
            /\ d = 0 => r = 8
            /\ d >= 8 => r = 0
            /\ d < 8 => r + d = 8
            /\ \A j \in 1..Len(query.rows) :
                 d <= query.rows[j].distance => r >= query.results[j].relevance

\* a result list that holds a row at distance 0 and a row beyond distance 2
C22_Witness ==
  /\ query.phase = "returned"
  /\ \E i, j \in 1..Len(query.rows) :
       query.rows[i].distance = 0 /\ query.rows[j].distance > 8

(***************************************************************************)
(* C23.  With a non-empty set of source ids every result is of a chunk     *)
(* whose source is in the set; with no set or an empty one no source is    *)
(* excluded (when k covers the whole index, every chunk that has a vector  *)
(* and an article is returned).  Every result carries the source of its    *)
(* chunk and the title and URL of the article that owns the chunk.         *)
(***************************************************************************)
C23_SourceFilterAndOwner ==
  query.phase = "returned" =>
    LET d == query.seen
        filtering == query.sourcesArg.given /\ query.sourcesArg.value # {}
    IN /\ \A i \in 1..Len(query.rows) :
            \E c \in d.chunks : \E a \in d.articles :
              /\ c.id = query.rows[i].chunkId
              /\ a.id = c.article_id /\ a.source_id = c.source_id
              /\ query.results[i].sourceId = c.source_id
              /\ query.results[i].title = a.title
              /\ query.results[i].url = UrlOf(a)
              /\ filtering => c.source_id \in query.sourcesArg.value
       /\ (~filtering /\ query.limit >= Cardinality(d.chunks_vec)) =>
            {query.rows[i].chunkId : i \in 1..Len(query.rows)} =
              {c.id : c \in {x \in d.chunks : /\ \E v \in d.chunks_vec : v.rowid = x.id
                                               /\ \E a \in d.articles :
                                                    a.id = x.article_id /\ a.source_id = x.source_id}}

\* a search restricted to source "b" returned results from a store that
\* holds chunks of source "a" as well, article 1 being in both sources
C23_Witness ==
  /\ query.phase = "returned"
  /\ query.sourcesArg = Given({"b"})
  /\ query.results # <<>>
  /\ \E c \in query.seen.chunks : c.source_id = "a" /\ c.article_id = 1
  /\ \E i \in 1..Len(query.rows) : query.rows[i].articleId = 1

(***************************************************************************)
(* C24.  A search whose embedding call or storage query fails throws and   *)
(* has no result list; a result list is returned only after the embedding  *)
(* call and the storage query have both succeeded; after a failed          *)
(* embedding call no storage query is made.                                *)
(***************************************************************************)
C24_SearchFailuresPropagate ==
  /\ query.phase = "threw" =>
       /\ query.results = <<>> /\ query.rows = <<>>
       /\ query.error # NoError
       /\ query.error = Error("generateEmbedding", 0) => (query.queries = 0 /\ ~query.asked.given)
  /\ query.phase = "returned" => (query.queries = 1 /\ query.error = NoError)
  /\ query.queries = 0 => query.phase \in {"none", "embedding", "threw"}

\* the embedding call of a search over a store with chunks failed
C24_Witness ==
  /\ query.phase = "threw"
  /\ query.queries = 0
  /\ db.chunks # {}

(***************************************************************************)
(* C38.  A search with a non-empty set S of source ids and the limit k     *)
(* returns min(k, n) results, n the number of stored chunks of the         *)
(* sources in S, and they are the nearest of these: no chunk of S that is  *)
(* left out is nearer to the query than one that is returned.              *)
(* Violated: the index picks the k nearest vectors of all sources, the     *)
(* vectors of deleted chunks among them, and the join and the source       *)
(* filter are applied to these k.                                          *)
(***************************************************************************)
C38_NearestWithinSources ==
  (query.phase = "returned" /\ query.sourcesArg.given /\ query.sourcesArg.value # {}) =>
    LET d == query.seen
        eligible == {c \in d.chunks : /\ c.source_id \in query.sourcesArg.value
                                       /\ \E v \in d.chunks_vec : v.rowid = c.id}
        DistanceOf(c) == VecDistance(Embedding(query.text),
                           (CHOOSE v \in d.chunks_vec : v.rowid = c.id).embedding)
        returned == {query.rows[i].chunkId : i \in 1..Len(query.rows)}
    IN /\ Len(query.rows) = Min(query.limit, Cardinality(eligible))
       /\ returned \subseteq {c.id : c \in eligible}
       /\ \A c \in eligible : \A e \in eligible :
            (c.id \in returned /\ e.id \notin returned) => DistanceOf(c) <= DistanceOf(e)

(***************************************************************************)
(* deduplicateResults (src/search/index.ts 68-83) on its own: it is        *)
(* applied to a list of formatted results, and once more to what it        *)
(* returned.  The Map `seen' is the sequence of its values in insertion    *)
(* order, each value carrying its key (its url).                           *)
(***************************************************************************)
\* the longest list of results deduplicated
MaxResults == 3

\* seen.get(key): the position of the value stored under the key, 0 if none
SeenGet(seen, key) ==
  IF \E i \in 1..Len(seen) : seen[i].url = key
    THEN CHOOSE i \in 1..Len(seen) : seen[i].url = key
    ELSE 0

\* A faulty variant of KeepsResult: a later result of the same url always
\* replaces the earlier one.
KeepsLatest(existing, result) == TRUE

\* result.relevance > existing.relevance
KeepsResult(existing, result) == result.relevance > existing.relevance

\* the for loop over results: seen.set keeps the position of a key that is
\* already in the Map
RECURSIVE SeenLoop(_, _)
SeenLoop(results, seen) ==
  IF results = <<>> THEN seen
  ELSE LET result == Head(results)
           at == SeenGet(seen, result.url)
       IN SeenLoop(Tail(results),
            IF at = 0 THEN Append(seen, result)
            ELSE IF KeepsResult(seen[at], result) THEN [seen EXCEPT ![at] = result]
            ELSE seen)

\* .sort((a, b) => b.relevance - a.relevance): Array.prototype.sort is
\* stable, so a value goes behind the values that are not less relevant
RECURSIVE SortByRelevance(_, _)
SortByRelevance(values, sorted) ==
  IF values = <<>> THEN sorted
  ELSE LET v == Head(values)
           before == Cardinality({i \in 1..Len(sorted) : sorted[i].relevance >= v.relevance})
       IN SortByRelevance(Tail(values),
            SubSeq(sorted, 1, before) \o <<v>> \o SubSeq(sorted, before + 1, Len(sorted)))

deduplicateResults(results) == SortByRelevance(SeenLoop(results, <<>>), <<>>)

\* Formatted results of chunks of two articles of source "a"
FormattedResults ==
  {[title |-> a, url |-> UrlOf([id |-> a, source_id |-> "a"]),
    excerpt |-> [title |-> a, pieces |-> <<Sentence(<<e>>, 0)>>],
    sourceId |-> "a", relevance |-> r] : a \in ArticleIds, e \in {1, 3}, r \in {0, 4, 8}}

DedupInit ==
  /\ db = EmptyDb
  /\ pc = "idle"
  /\ run = NoRun
  /\ last = NoLast
  /\ clock = 0
  /\ http = NoHttp
  /\ batch = NoBatch
  /\ cmd = NoCmd
  /\ chunking = NoChunking
  /\ \E results \in UNION {[1..n -> FormattedResults] : n \in 0..MaxResults} :
       query = [NoQuery EXCEPT !.phase = "formatted", !.results = results]
  /\ conn = NoConn

\* deduplicateResults(results) returns
Deduplicate ==
  /\ query.phase = "formatted"
  /\ query' = [query EXCEPT !.phase = "deduplicated",
                            !.deduplicated = deduplicateResults(query.results)]
  /\ UNCHANGED <<db, pc, run, last, clock, http, batch, cmd, chunking, conn>>

\* deduplicateResults is applied to the list it returned
DeduplicateAgain ==
  /\ query.phase = "deduplicated"
  /\ query' = [query EXCEPT !.phase = "again",
                            !.again = deduplicateResults(query.deduplicated)]
  /\ UNCHANGED <<db, pc, run, last, clock, http, batch, cmd, chunking, conn>>

DedupNext == Deduplicate \/ DeduplicateAgain

DedupSpec == DedupInit /\ [][DedupNext]_vars

(***************************************************************************)
(* C34.  deduplicateResults returns one result for each url of its input   *)
(* and no other: an element of the input whose relevance no input element  *)
(* of the same url exceeds; the list is in descending order of relevance;  *)
(* applied to its own output it returns that output.                       *)
(***************************************************************************)
C34_OnePerUrlHighestFirst ==
  LET in == query.results
      out == query.deduplicated
  IN /\ query.phase \in {"deduplicated", "again"} =>
          /\ {out[i].url : i \in 1..Len(out)} = {in[i].url : i \in 1..Len(in)}
          /\ \A i, j \in 1..Len(out) : out[i].url = out[j].url => i = j
          /\ \A i \in 1..Len(out) :
               /\ \E j \in 1..Len(in) : in[j] = out[i]
               /\ \A j \in 1..Len(in) :
                    in[j].url = out[i].url => in[j].relevance <= out[i].relevance
          /\ \A i \in 1..(Len(out) - 1) : out[i].relevance >= out[i + 1].relevance
     /\ query.phase = "again" => query.again = out

\* three results of two articles, the more relevant chunk of an article
\* after the less relevant one, and the other article more relevant still
C34_Witness ==
  /\ query.phase = "again"
  /\ Len(query.results) = 3
  /\ query.results[1].url = query.results[2].url
  /\ query.results[1].relevance < query.results[2].relevance
  /\ query.results[2].relevance < query.results[3].relevance
  /\ query.deduplicated = <<query.results[3], query.results[2]>>

(***************************************************************************)
(* A search interleaved with a sync of source "a" in one process: each     *)
(* runs from one await to the next without the other in between; the       *)
(* store transaction of the sync has no await (index.ts 173-230).          *)
(***************************************************************************)
SearchSyncInit ==
  /\ db \in StoresAtRest
  /\ pc = "idle"
  /\ run = NoRun
  /\ last = NoLast
  /\ clock = 1
  /\ http = NoHttp
  /\ batch = NoBatch
  /\ cmd = NoCmd
  /\ chunking = NoChunking
  /\ query = NoQuery
  /\ conn = NoConn

SearchSyncNext ==
  \/ \E fullResync \in BOOLEAN : SyncBegin("a", fullResync)
  \/ SyncFetchFail
  \/ \E articles \in Listings : SyncFetched(articles)
  \/ SyncEmbedFail
  \/ SyncStore
  \/ \E failAt \in 0..(Statements - 1) : SyncStoreFail(failAt)
  \/ SyncReturn
  \/ Search(0, NotGiven, NotGiven)
  \/ SearchEmbeddingRejects
  \/ SearchReturns
  \/ SearchQueryThrows
  \/ SearchDone

SearchSyncSpec == SearchSyncInit /\ [][SearchSyncNext]_vars

(***************************************************************************)
(* C25.  The store a search reads while a sync is in progress or has just  *)
(* ended is the store as it was before the sync's commit or the store as   *)
(* the commit left it, and in it every chunk row has its vector row and    *)
(* every vector row its chunk row.                                         *)
(* Violated: a commit that deletes an article absent from the listing      *)
(* leaves the vector rows of its chunks, and the search that follows       *)
(* reads vector rows without chunk rows.                                   *)
(***************************************************************************)
C25_SearchSeesWholeCommits ==
  (query.queries = 1 /\ pc # "idle") =>
    /\ \/ query.seen = run.pre
       \/ Committed /\ query.seen = db
    /\ ChunkIds(query.seen) = VecIds(query.seen)

====
